---- MODULE Spec2Model ----
(***************************************************************************)
(* A model of the godb query operators (Filter, Project, LimitOp, OrderBy, *)
(* Aggregator, EqualityJoin, InsertOp, DeleteOp) and of the AggState       *)
(* accumulators.  An operator under test is constructed over one or two    *)
(* finite children; Iterator opens an iterator (a closure) and each pull   *)
(* action is one call of the returned function.                            *)
(***************************************************************************)
EXTENDS Integers, Sequences, FiniteSets, TLC

VARIABLES
  op,        \* the kind of the operator under test
  cfg,       \* the fields of the operator struct, set by its constructor
  left,      \* the child operator (the left child of a join)
  right,     \* the right child of a join
  storeFail, \* the storage calls (by number) on which the DBFile fails
  nanInt,    \* what int64(NaN) yields on this build
  heap,      \* the objects behind pointers, by address: the AggState objects
             \* (the templates come first) and the seenTuples maps of Project
  it,        \* the closure state of each iterator created from the operator
  out,       \* per iterator, the results of the pull calls made so far
  calls      \* the insertTuple / deleteTuple calls made so far

vars == <<op, cfg, left, right, storeFail, nanInt, heap, it, out, calls>>

----------------------------------------------------------------------------
(* Bounds of the model. *)

MaxLen == 3        \* longest child stream
MaxJoinLen == 2    \* longest child stream of a join
MaxAfterEnd == 2   \* pulls that may end with an end-of-stream signal
MaxIters == 2      \* iterators created from one operator (two-iterator runs)
MaxAccLen == 4     \* longest value sequence fed to a single accumulator
MaxTwoLen == 2     \* longest child stream of a two-iterator run

----------------------------------------------------------------------------
(* Values, tuples, errors. *)

IntField(n) == <<"int", n>>
StringField(n) == <<"str", n>>
\* a field value on which the evaluation of an expression fails
BadVal == <<"bad", 0>>

IntType == "int"
StringType == "str"
FieldType(fname, ftype) == <<fname, ftype>>

\* *Tuple: a nil pointer, or the fields and the descriptor of a tuple
NilTup == [nil |-> TRUE, f |-> <<>>, d |-> <<>>]
Tup(fields, desc) == [nil |-> FALSE, f |-> fields, d |-> desc]

\* error values; fmt.Errorf builds a new error around the text of another
NilErr == <<>>
EOF == <<"EOF">>
ChildErr == <<"child error">>
OpenErr == <<"open error">>
EvalErr == <<"eval error">>
StoreErr == <<"storage error">>
Errorf(msg, e) == <<msg>> \o e

\* what a pull function returns: (*Tuple, error)
Res(t, e) == [t |-> t, err |-> e]

\* TupleDesc.merge
merge(d1, d2) == d1 \o d2

\* joinTuples
joinTuples(t1, t2) ==
  IF t1.nil THEN t2
  ELSE IF t2.nil THEN t1
  ELSE Tup(t1.f \o t2.f, merge(t1.d, t2.d))

\* Tuple.tupleKey: a map key that is equal for equal field values
tupleKey(t) == [i \in 1..Len(t.f) |-> t.f[i]]

----------------------------------------------------------------------------
(* Expressions. *)

FieldExpr(i, fname, ftype) ==
  [kind |-> "field", idx |-> i, val |-> IntField(0), fname |-> fname, ftype |-> ftype]
ConstExpr(v, ftype) ==
  [kind |-> "const", idx |-> 0, val |-> v, fname |-> "const", ftype |-> ftype]

\* Expr.EvalExpr: (DBValue, error)
EvalExpr(e, t) ==
  LET v == IF e.kind = "const" THEN e.val ELSE t.f[e.idx]
  IN IF v = BadVal THEN [val |-> v, err |-> EvalErr]
     ELSE [val |-> v, err |-> NilErr]

\* Expr.GetExprType
GetExprType(e) == [Fname |-> e.fname, Ftype |-> e.ftype]

\* DBValue.EvalPred
EvalPred(v1, v2, bop) ==
  CASE bop = "OpEq" -> v1 = v2
    [] bop = "OpNeq" -> v1 # v2
    [] bop = "OpGt" -> v1[1] = v2[1] /\ v1[2] > v2[2]
    [] bop = "OpLt" -> v1[1] = v2[1] /\ v1[2] < v2[2]
    [] OTHER -> FALSE

----------------------------------------------------------------------------
(* Children: finite streams that may fail to open, may yield errors, and   *)
(* keep signalling exhaustion once exhausted.                              *)

\* Operator.Iterator of a child: the error it returns
ChildIterator(c) == c.openErr

\* one call of a child's pull function, the child iterator being at pos
ChildNext(c, pos) ==
  IF pos <= Len(c.items)
    THEN [res |-> c.items[pos], pos |-> pos + 1]
    ELSE [res |-> Res(NilTup, IF c.conv = "eof" THEN EOF ELSE NilErr), pos |-> pos]

----------------------------------------------------------------------------
(* The AggState family.  An accumulator is an object on the heap; a zero   *)
(* struct has every numeric field 0 and first = FALSE.                     *)

ZeroAggState(kind) ==
  [kind |-> kind, alias |-> "", expr |-> ConstExpr(IntField(0), IntType),
   count |-> 0, sum |-> 0, max |-> 0, min |-> 0, first |-> FALSE]

intAggGetter(v) == v[2]

\* AggState.Init of each accumulator kind, on a zero struct
AggInit(kind, alias, expr) ==
  LET a == ZeroAggState(kind)
  IN CASE kind = "count" -> [a EXCEPT !.count = 0, !.expr = expr, !.alias = alias]
       [] kind = "sum" -> [a EXCEPT !.alias = alias, !.expr = expr, !.sum = 0]
       [] kind = "avg" -> [a EXCEPT !.alias = alias, !.expr = expr, !.sum = 0, !.count = 0]
       [] kind = "max" -> [a EXCEPT !.alias = alias, !.expr = expr, !.first = TRUE]
       [] kind = "min" -> [a EXCEPT !.alias = alias, !.expr = expr, !.first = TRUE]

\* the struct the Copy method of each accumulator kind builds
CopyStruct(a) ==
  LET z == [ZeroAggState(a.kind) EXCEPT !.alias = a.alias, !.expr = a.expr]
  IN CASE a.kind = "count" -> [z EXCEPT !.count = a.count]
       [] a.kind = "sum" -> [z EXCEPT !.sum = a.sum]
       [] a.kind = "avg" -> [z EXCEPT !.sum = a.sum, !.count = a.count]
       [] a.kind = "max" -> [z EXCEPT !.max = a.max, !.first = a.first]
       [] a.kind = "min" -> [z EXCEPT !.min = a.min, !.first = a.first]

\* a Copy that returns its receiver
Copy_alias(h, addr) == [heap |-> h, addr |-> addr]

\* AggState.Copy on the object at addr: a new object, at a new address
Copy(h, addr) == [heap |-> Append(h, CopyStruct(h[addr])), addr |-> Len(h) + 1]

CountAggState_AddTuple(a, t) == [a EXCEPT !.count = a.count + 1]

SumAggState_AddTuple(a, t) ==
  LET r == EvalExpr(a.expr, t)
  IN IF r.err # NilErr THEN a
     ELSE [a EXCEPT !.sum = a.sum + intAggGetter(r.val)]

AvgAggState_AddTuple(a, t) ==
  LET r == EvalExpr(a.expr, t)
  IN IF r.err # NilErr THEN a
     ELSE [a EXCEPT !.sum = a.sum + intAggGetter(r.val), !.count = a.count + 1]

\* MaxAggState.AddTuple without the first flag: the running maximum starts at 0
MaxAggState_AddTuple_noFirst(a, t) ==
  LET r == EvalExpr(a.expr, t)
  IN IF r.err # NilErr THEN a
     ELSE IF intAggGetter(r.val) > a.max THEN [a EXCEPT !.max = intAggGetter(r.val)]
     ELSE a

MaxAggState_AddTuple(a, t) ==
  LET r == EvalExpr(a.expr, t)
  IN IF r.err # NilErr THEN a
     ELSE IF a.first THEN [a EXCEPT !.max = intAggGetter(r.val), !.first = FALSE]
     ELSE IF intAggGetter(r.val) > a.max THEN [a EXCEPT !.max = intAggGetter(r.val)]
     ELSE a

MinAggState_AddTuple(a, t) ==
  LET r == EvalExpr(a.expr, t)
  IN IF r.err # NilErr THEN a
     ELSE IF a.first THEN [a EXCEPT !.min = intAggGetter(r.val), !.first = FALSE]
     ELSE IF intAggGetter(r.val) < a.min THEN [a EXCEPT !.min = intAggGetter(r.val)]
     ELSE a

\* AggState.AddTuple, dispatched on the dynamic type
AddTupleStruct(a, t) ==
  CASE a.kind = "count" -> CountAggState_AddTuple(a, t)
    [] a.kind = "sum" -> SumAggState_AddTuple(a, t)
    [] a.kind = "avg" -> AvgAggState_AddTuple(a, t)
    [] a.kind = "max" -> MaxAggState_AddTuple(a, t)
    [] a.kind = "min" -> MinAggState_AddTuple(a, t)

\* AggState.AddTuple on the object at addr
AddTuple(h, addr, t) == [h EXCEPT ![addr] = AddTupleStruct(h[addr], t)]

\* AggState.GetTupleDesc: CountAggState names IntType, the others the type
\* of their expression
GetTupleDesc(a) ==
  IF a.kind = "count" THEN <<FieldType(a.alias, IntType)>>
  ELSE <<FieldType(a.alias, GetExprType(a.expr).Ftype)>>

\* int64(x) of the float64 quotient s / c: truncation toward zero; the
\* quotient 0 / 0 is NaN, whose conversion is implementation-dependent (nan)
Int64OfQuotient(s, c, nan) ==
  IF c = 0 THEN nan
  ELSE IF s >= 0 THEN s \div c
  ELSE -((-s) \div c)

\* AggState.Finalize of each accumulator kind
Finalize(a, nan) ==
  LET v == CASE a.kind = "count" -> a.count
             [] a.kind = "sum" -> a.sum
             [] a.kind = "avg" -> Int64OfQuotient(a.sum, a.count, nan)
             [] a.kind = "max" -> a.max
             [] a.kind = "min" -> a.min
  IN Tup(<<IntField(v)>>, GetTupleDesc(a))

----------------------------------------------------------------------------
(* Iterators.  The record holds the variables an Iterator call declares    *)
(* and its pull function captures, for every operator.                     *)

NoIter ==
  [status |-> "none",     \* none, open, failed (Iterator returned an error),
                          \* panic, diverged (Iterator never returns)
   err |-> NilErr,        \* the error Iterator returned
   pos |-> 1,             \* childIter / leftIter: the next item of the child
   rpos |-> 1,            \* rightIterator
   opens |-> 0,           \* calls of child.Iterator (left.Iterator)
   ropens |-> 0,          \* calls of right.Iterator
   cpulls |-> 0,          \* calls of childIter (leftIter) inside pulls
   cerr |-> NilErr,       \* the error a child returned to the call in progress
   limit |-> 0, count |-> 0,               \* LimitOp, InsertOp, DeleteOp
   returned |-> FALSE,                     \* InsertOp, DeleteOp
   seenTuples |-> 0,                       \* Project: the address of the map
   tuples |-> <<>>, index |-> 0,           \* OrderBy
   leftTuple |-> NilTup,                   \* EqualityJoin
   aggState |-> <<>>, groupByList |-> <<>>,      \* Aggregator
   finalizedIter |-> "nil", currentIndex |-> 0]  \* Aggregator

Failed(s, e) == [s EXCEPT !.status = "failed", !.err = e]

\* childIter, err := child.Iterator(tid)
OpenChild(c, s) ==
  IF ChildIterator(c) # NilErr
    THEN Failed([s EXCEPT !.opens = @ + 1, !.cerr = ChildIterator(c)], ChildIterator(c))
    ELSE [s EXCEPT !.status = "open", !.pos = 1, !.opens = @ + 1]

\* tuple, err := childIter()
childIter(c, s) ==
  LET r == ChildNext(c, s.pos)
  IN [res |-> r.res,
      s |-> [s EXCEPT !.pos = r.pos, !.cpulls = @ + 1,
                      !.cerr = IF r.res.err # NilErr THEN r.res.err ELSE @]]

----------------------------------------------------------------------------
(* Filter *)

Filter_Iterator(f, c, s) == OpenChild(c, s)

\* a pull function of Filter that evaluates the predicate on (right, left)
RECURSIVE Filter_next_swapped(_, _, _)
Filter_next_swapped(f, c, s) ==
  LET r == childIter(c, s)
      tuple == r.res.t
      err == r.res.err
  IN IF err # NilErr THEN [s |-> r.s, res |-> Res(NilTup, err)]
     ELSE IF tuple.nil THEN [s |-> r.s, res |-> Res(NilTup, NilErr)]
     ELSE LET leftValue == EvalExpr(f.left, tuple)
              rightValue == EvalExpr(f.right, tuple)
          IN IF leftValue.err # NilErr
               THEN [s |-> r.s, res |-> Res(NilTup, leftValue.err)]
             ELSE IF rightValue.err # NilErr
               THEN [s |-> r.s, res |-> Res(NilTup, rightValue.err)]
             ELSE IF EvalPred(rightValue.val, leftValue.val, f.op)
               THEN [s |-> r.s, res |-> Res(tuple, NilErr)]
             ELSE Filter_next_swapped(f, c, r.s)

RECURSIVE Filter_next(_, _, _)
Filter_next(f, c, s) ==
  LET r == childIter(c, s)
      tuple == r.res.t
      err == r.res.err
  IN IF err # NilErr THEN [s |-> r.s, res |-> Res(NilTup, err)]
     ELSE IF tuple.nil THEN [s |-> r.s, res |-> Res(NilTup, NilErr)]
     ELSE LET leftValue == EvalExpr(f.left, tuple)
              rightValue == EvalExpr(f.right, tuple)
          IN IF leftValue.err # NilErr
               THEN [s |-> r.s, res |-> Res(NilTup, leftValue.err)]
             ELSE IF rightValue.err # NilErr
               THEN [s |-> r.s, res |-> Res(NilTup, rightValue.err)]
             ELSE IF EvalPred(leftValue.val, rightValue.val, f.op)
               THEN [s |-> r.s, res |-> Res(tuple, NilErr)]
             ELSE Filter_next(f, c, r.s)

----------------------------------------------------------------------------
(* Project *)

Project_Descriptor(p) ==
  [i \in 1..Len(p.selectFields) |->
     FieldType(p.outputNames[i], GetExprType(p.selectFields[i]).Ftype)]

\* a Project.Iterator whose seenTuples map is made once for the operator and
\* used by every iterator
Project_Iterator_oneMap(p, c, s, h) ==
  LET s1 == OpenChild(c, s)
  IN IF s1.status # "open" THEN [s |-> s1, heap |-> h]
     ELSE IF h = <<>> THEN [s |-> [s1 EXCEPT !.seenTuples = 1], heap |-> <<{}>>]
     ELSE [s |-> [s1 EXCEPT !.seenTuples = 1], heap |-> h]

\* seenTuples := make(map[any]struct{}) is a new map object on the heap h;
\* the closure holds its address
Project_Iterator(p, c, s, h) ==
  LET s1 == OpenChild(c, s)
  IN IF s1.status # "open" THEN [s |-> s1, heap |-> h]
     ELSE [s |-> [s1 EXCEPT !.seenTuples = Len(h) + 1], heap |-> Append(h, {})]

\* a pull function of Project that never records what it has emitted
RECURSIVE Project_next_noRecord(_, _, _, _)
Project_next_noRecord(p, c, s, h) ==
  LET r == childIter(c, s)
      tuple == r.res.t
      err == r.res.err
  IN IF err # NilErr THEN [s |-> r.s, heap |-> h, res |-> Res(NilTup, err)]
     ELSE IF tuple.nil THEN [s |-> r.s, heap |-> h, res |-> Res(NilTup, NilErr)]
     ELSE LET n == Len(p.selectFields)
              value == [i \in 1..n |-> EvalExpr(p.selectFields[i], tuple)]
              failing == {i \in 1..n : value[i].err # NilErr}
              projectedTuple == Tup([i \in 1..n |-> value[i].val], Project_Descriptor(p))
              key == tupleKey(projectedTuple)
          IN IF failing # {}
               THEN [s |-> r.s, heap |-> h,
                     res |-> Res(NilTup, value[CHOOSE i \in failing :
                                                 \A j \in failing : i <= j].err)]
             ELSE IF p.distinct /\ key \in h[r.s.seenTuples]
               THEN Project_next_noRecord(p, c, r.s, h)
             ELSE [s |-> r.s, heap |-> h, res |-> Res(projectedTuple, NilErr)]

RECURSIVE Project_next(_, _, _, _)
Project_next(p, c, s, h) ==
  LET r == childIter(c, s)
      tuple == r.res.t
      err == r.res.err
  IN IF err # NilErr THEN [s |-> r.s, heap |-> h, res |-> Res(NilTup, err)]
     ELSE IF tuple.nil THEN [s |-> r.s, heap |-> h, res |-> Res(NilTup, NilErr)]
     ELSE LET n == Len(p.selectFields)
              value == [i \in 1..n |-> EvalExpr(p.selectFields[i], tuple)]
              failing == {i \in 1..n : value[i].err # NilErr}
              projectedTuple == Tup([i \in 1..n |-> value[i].val], Project_Descriptor(p))
              key == tupleKey(projectedTuple)
          IN IF failing # {}
               THEN [s |-> r.s, heap |-> h,
                     res |-> Res(NilTup, value[CHOOSE i \in failing :
                                                 \A j \in failing : i <= j].err)]
             ELSE IF p.distinct /\ key \in h[r.s.seenTuples]
               THEN Project_next(p, c, r.s, h)
             ELSE [s |-> r.s,
                   heap |-> IF p.distinct
                              THEN [h EXCEPT ![r.s.seenTuples] = @ \cup {key}]
                              ELSE h,
                   res |-> Res(projectedTuple, NilErr)]

----------------------------------------------------------------------------
(* LimitOp *)

\* a LimitOp.Iterator that opens the child before it looks at the limit
LimitOp_Iterator_openFirst(l, c, s) ==
  LET limitValue == EvalExpr(l.limitTups, NilTup)
      s1 == OpenChild(c, s)
  IN IF s1.status # "open" THEN s1
     ELSE IF limitValue.err # NilErr
       THEN Failed(s1, Errorf("error evaluating limit expression", limitValue.err))
     ELSE IF limitValue.val[1] # IntType
       THEN Failed(s1, <<"limit expression did not evaluate to an integer">>)
     ELSE IF limitValue.val[2] < 0
       THEN Failed(s1, <<"limit value cannot be negative">>)
     ELSE [s1 EXCEPT !.limit = limitValue.val[2], !.count = 0]

LimitOp_Iterator(l, c, s) ==
  LET limitValue == EvalExpr(l.limitTups, NilTup)
  IN IF limitValue.err # NilErr
       THEN Failed(s, Errorf("error evaluating limit expression", limitValue.err))
     ELSE IF limitValue.val[1] # IntType
       THEN Failed(s, <<"limit expression did not evaluate to an integer">>)
     ELSE IF limitValue.val[2] < 0
       THEN Failed(s, <<"limit value cannot be negative">>)
     ELSE [OpenChild(c, s) EXCEPT !.limit = limitValue.val[2], !.count = 0]

\* a LimitOp_next that stops one tuple late: count > limit
LimitOp_next_offByOne(l, c, s) ==
  IF s.count > s.limit THEN [s |-> s, res |-> Res(NilTup, NilErr)]
  ELSE LET r == childIter(c, s)
       IN IF r.res.err # NilErr THEN [s |-> r.s, res |-> Res(NilTup, r.res.err)]
          ELSE [s |-> [r.s EXCEPT !.count = @ + 1], res |-> Res(r.res.t, NilErr)]

\* LimitOp_next without the check of the child's error
LimitOp_next_noErrCheck(l, c, s) ==
  IF s.count >= s.limit THEN [s |-> s, res |-> Res(NilTup, NilErr)]
  ELSE LET r == childIter(c, s)
       IN [s |-> [r.s EXCEPT !.count = @ + 1], res |-> Res(r.res.t, NilErr)]

\* a LimitOp_next that counts only the tuples it passes on
LimitOp_next_countTuples(l, c, s) ==
  IF s.count >= s.limit THEN [s |-> s, res |-> Res(NilTup, NilErr)]
  ELSE LET r == childIter(c, s)
       IN IF r.res.err # NilErr THEN [s |-> r.s, res |-> Res(NilTup, r.res.err)]
          ELSE IF r.res.t.nil THEN [s |-> r.s, res |-> Res(NilTup, NilErr)]
          ELSE [s |-> [r.s EXCEPT !.count = @ + 1], res |-> Res(r.res.t, NilErr)]

LimitOp_next(l, c, s) ==
  IF s.count >= s.limit THEN [s |-> s, res |-> Res(NilTup, NilErr)]
  ELSE LET r == childIter(c, s)
       IN IF r.res.err # NilErr THEN [s |-> r.s, res |-> Res(NilTup, r.res.err)]
          ELSE [s |-> [r.s EXCEPT !.count = @ + 1], res |-> Res(r.res.t, NilErr)]

----------------------------------------------------------------------------
(* InsertOp and DeleteOp.  log is the sequence of storage calls made so    *)
(* far; the DBFile fails the calls whose number is in fail.                *)

\* DBFile.insertTuple
insertTuple(fail, log, tuple) ==
  LET e == IF Len(log) + 1 \in fail THEN StoreErr ELSE NilErr
  IN [err |-> e, log |-> Append(log, [call |-> "insertTuple", t |-> tuple, err |-> e])]

\* DBFile.deleteTuple
deleteTuple(fail, log, tuple) ==
  LET e == IF Len(log) + 1 \in fail THEN StoreErr ELSE NilErr
  IN [err |-> e, log |-> Append(log, [call |-> "deleteTuple", t |-> tuple, err |-> e])]

InsertOp_Descriptor == <<FieldType("count", IntType)>>
DeleteOp_Descriptor == <<FieldType("count", IntType)>>

InsertOp_Iterator(iop, c, s) == [OpenChild(c, s) EXCEPT !.returned = FALSE, !.count = 0]
DeleteOp_Iterator(dop, c, s) == [OpenChild(c, s) EXCEPT !.returned = FALSE, !.count = 0]

\* the drain loop of InsertOp going on to the next tuple after a failed insert
RECURSIVE InsertOp_drain_continue(_, _, _, _)
InsertOp_drain_continue(c, fail, s, log) ==
  LET r == childIter(c, s)
      tuple == r.res.t
  IN IF r.res.err # NilErr THEN [s |-> r.s, log |-> log, res |-> Res(NilTup, r.res.err)]
     ELSE IF tuple.nil
       THEN [s |-> [r.s EXCEPT !.returned = TRUE], log |-> log,
             res |-> Res(Tup(<<IntField(r.s.count)>>, InsertOp_Descriptor), NilErr)]
     ELSE LET w == insertTuple(fail, log, tuple)
          IN IF w.err # NilErr
               THEN InsertOp_drain_continue(c, fail, r.s, w.log)
             ELSE InsertOp_drain_continue(c, fail, [r.s EXCEPT !.count = @ + 1], w.log)

RECURSIVE InsertOp_drain(_, _, _, _)
InsertOp_drain(c, fail, s, log) ==
  LET r == childIter(c, s)
      tuple == r.res.t
  IN IF r.res.err # NilErr THEN [s |-> r.s, log |-> log, res |-> Res(NilTup, r.res.err)]
     ELSE IF tuple.nil
       THEN [s |-> [r.s EXCEPT !.returned = TRUE], log |-> log,
             res |-> Res(Tup(<<IntField(r.s.count)>>, InsertOp_Descriptor), NilErr)]
     ELSE LET w == insertTuple(fail, log, tuple)
          IN IF w.err # NilErr
               THEN [s |-> r.s, log |-> w.log,
                     res |-> Res(NilTup, Errorf("failed to insert tuple", w.err))]
             ELSE InsertOp_drain(c, fail, [r.s EXCEPT !.count = @ + 1], w.log)

\* InsertOp_next clearing the returned flag when it reports exhaustion
InsertOp_next_rearm(c, fail, s, log) ==
  IF s.returned
    THEN [s |-> [s EXCEPT !.returned = FALSE], log |-> log, res |-> Res(NilTup, NilErr)]
    ELSE InsertOp_drain(c, fail, s, log)

\* an InsertOp_next whose count starts at 0 in every call
InsertOp_next_countPerCall(c, fail, s, log) ==
  IF s.returned THEN [s |-> s, log |-> log, res |-> Res(NilTup, NilErr)]
  ELSE InsertOp_drain(c, fail, [s EXCEPT !.count = 0], log)

InsertOp_next(c, fail, s, log) ==
  IF s.returned THEN [s |-> s, log |-> log, res |-> Res(NilTup, NilErr)]
  ELSE InsertOp_drain(c, fail, s, log)

\* the drain loop of DeleteOp without count++
RECURSIVE DeleteOp_drain_noCount(_, _, _, _)
DeleteOp_drain_noCount(c, fail, s, log) ==
  LET r == childIter(c, s)
      tuple == r.res.t
  IN IF r.res.err # NilErr THEN [s |-> r.s, log |-> log, res |-> Res(NilTup, r.res.err)]
     ELSE IF tuple.nil
       THEN [s |-> [r.s EXCEPT !.returned = TRUE], log |-> log,
             res |-> Res(Tup(<<IntField(r.s.count)>>, DeleteOp_Descriptor), NilErr)]
     ELSE LET w == deleteTuple(fail, log, tuple)
          IN IF w.err # NilErr
               THEN [s |-> r.s, log |-> w.log,
                     res |-> Res(NilTup, Errorf("failed to delete tuple", w.err))]
             ELSE DeleteOp_drain_noCount(c, fail, r.s, w.log)

RECURSIVE DeleteOp_drain(_, _, _, _)
DeleteOp_drain(c, fail, s, log) ==
  LET r == childIter(c, s)
      tuple == r.res.t
  IN IF r.res.err # NilErr THEN [s |-> r.s, log |-> log, res |-> Res(NilTup, r.res.err)]
     ELSE IF tuple.nil
       THEN [s |-> [r.s EXCEPT !.returned = TRUE], log |-> log,
             res |-> Res(Tup(<<IntField(r.s.count)>>, DeleteOp_Descriptor), NilErr)]
     ELSE LET w == deleteTuple(fail, log, tuple)
          IN IF w.err # NilErr
               THEN [s |-> r.s, log |-> w.log,
                     res |-> Res(NilTup, Errorf("failed to delete tuple", w.err))]
             ELSE DeleteOp_drain(c, fail, [r.s EXCEPT !.count = @ + 1], w.log)

DeleteOp_next(c, fail, s, log) ==
  IF s.returned THEN [s |-> s, log |-> log, res |-> Res(NilTup, NilErr)]
  ELSE DeleteOp_drain(c, fail, s, log)

----------------------------------------------------------------------------
(* OrderBy.  sort.SliceStable sorts a slice of at most 20 elements by      *)
(* insertion; the less function panics when a key fails to evaluate.       *)

\* the less function of OrderBy.Iterator: "true", "false" or "panic"
RECURSIVE OrderBy_less(_, _, _, _)
OrderBy_less(o, t1, t2, ind) ==
  IF ind > Len(o.orderBy) THEN "false"
  ELSE LET expr == o.orderBy[ind]
           val1 == EvalExpr(expr, t1)
           val2 == EvalExpr(expr, t2)
           ftype == GetExprType(expr).Ftype
       IN IF val1.err # NilErr \/ val2.err # NilErr THEN "panic"
          ELSE IF ftype \notin {IntType, StringType} THEN "panic"
          ELSE IF val1.val[1] # ftype \/ val2.val[1] # ftype THEN "panic"
          ELSE IF val1.val[2] # val2.val[2]
            THEN IF (o.ascending[ind] /\ val1.val[2] < val2.val[2])
                    \/ (~o.ascending[ind] /\ val1.val[2] > val2.val[2])
                   THEN "true" ELSE "false"
          ELSE OrderBy_less(o, t1, t2, ind + 1)

\* the less function of the OrderBy of order_by_op.go
RECURSIVE OrderByEOF_less(_, _, _, _)
OrderByEOF_less(o, t1, t2, idx) ==
  IF idx > Len(o.orderBy) THEN "false"
  ELSE LET expr == o.orderBy[idx]
           val1 == EvalExpr(expr, t1)
           val2 == EvalExpr(expr, t2)
       IN IF val1.err # NilErr \/ val2.err # NilErr THEN "panic"
          ELSE IF val1.val # val2.val
            THEN IF o.ascending[idx]
                   THEN (IF val1.val[2] < val2.val[2] THEN "true" ELSE "false")
                   ELSE (IF val1.val[2] > val2.val[2] THEN "true" ELSE "false")
          ELSE OrderByEOF_less(o, t1, t2, idx + 1)

\* a less function that takes every key as ascending
Less_ascending(o, eof, t1, t2) ==
  IF eof THEN OrderByEOF_less([o EXCEPT !.ascending = [n \in DOMAIN @ |-> TRUE]], t1, t2, 1)
  ELSE OrderBy_less([o EXCEPT !.ascending = [n \in DOMAIN @ |-> TRUE]], t1, t2, 1)

Less(o, eof, t1, t2) ==
  IF eof THEN OrderByEOF_less(o, t1, t2, 1) ELSE OrderBy_less(o, t1, t2, 1)

Swap(ts, i, j) == [ts EXCEPT ![i] = ts[j], ![j] = ts[i]]

\* the inner loop of the insertion sort: for j := i; j > a && less(j, j-1); j--
RECURSIVE InsertionInner(_, _, _, _)
InsertionInner(o, eof, ts, j) ==
  IF j <= 1 THEN [tuples |-> ts, panic |-> FALSE]
  ELSE LET l == Less(o, eof, ts[j], ts[j - 1])
       IN IF l = "panic" THEN [tuples |-> ts, panic |-> TRUE]
          ELSE IF l = "true" THEN InsertionInner(o, eof, Swap(ts, j, j - 1), j - 1)
          ELSE [tuples |-> ts, panic |-> FALSE]

\* the outer loop: for i := a + 1; i < b; i++
RECURSIVE InsertionOuter(_, _, _, _)
InsertionOuter(o, eof, ts, i) ==
  IF i > Len(ts) THEN [tuples |-> ts, panic |-> FALSE]
  ELSE LET r == InsertionInner(o, eof, ts, i)
       IN IF r.panic THEN r ELSE InsertionOuter(o, eof, r.tuples, i + 1)

\* sort.SliceStable(tuples, less)
SliceStable(o, eof, ts) == InsertionOuter(o, eof, ts, 2)

\* a fetch that stops after the first tuple of the child
OrderBy_fetch_one(c, s) ==
  LET r == childIter(c, s)
  IN IF r.res.err # NilErr THEN Failed(r.s, r.res.err)
     ELSE IF r.res.t.nil THEN r.s
     ELSE [r.s EXCEPT !.tuples = Append(@, r.res.t)]

\* the loop that fetches all tuples from the child (part_001)
RECURSIVE OrderBy_fetch(_, _)
OrderBy_fetch(c, s) ==
  LET r == childIter(c, s)
  IN IF r.res.err # NilErr THEN Failed(r.s, r.res.err)
     ELSE IF r.res.t.nil THEN r.s
     ELSE OrderBy_fetch(c, [r.s EXCEPT !.tuples = Append(@, r.res.t)])

\* the loop that fetches all tuples from the child (order_by_op.go): only
\* io.EOF ends it; a nil tuple with a nil error is appended and the loop goes
\* on, so over a child that signals exhaustion with (nil, nil) it never ends
RECURSIVE OrderByEOF_fetch(_, _)
OrderByEOF_fetch(c, s) ==
  LET r == childIter(c, s)
  IN IF r.res.err # NilErr
       THEN IF r.res.err = EOF THEN r.s ELSE Failed(r.s, r.res.err)
     ELSE IF r.res.t.nil
       THEN [r.s EXCEPT !.status = "diverged", !.tuples = Append(@, r.res.t)]
     ELSE OrderByEOF_fetch(c, [r.s EXCEPT !.tuples = Append(@, r.res.t)])

Sorted(o, eof, s) ==
  LET r == SliceStable(o, eof, s.tuples)
  IN IF r.panic THEN [s EXCEPT !.status = "panic"]
     ELSE [s EXCEPT !.tuples = r.tuples, !.index = 0]

OrderBy_Iterator(o, c, s) ==
  LET s1 == OpenChild(c, [s EXCEPT !.tuples = <<>>])
      s2 == OrderBy_fetch(c, s1)
  IN IF s1.status # "open" THEN s1
     ELSE IF s2.status # "open" THEN s2
     ELSE Sorted(o, FALSE, s2)

OrderByEOF_Iterator(o, c, s) ==
  LET s1 == OpenChild(c, [s EXCEPT !.tuples = <<>>])
      s2 == OrderByEOF_fetch(c, s1)
  IN IF s1.status # "open" THEN s1
     ELSE IF s2.status # "open" THEN s2
     ELSE Sorted(o, TRUE, s2)

OrderBy_next(s) ==
  IF s.index >= Len(s.tuples) THEN [s |-> s, res |-> Res(NilTup, NilErr)]
  ELSE [s |-> [s EXCEPT !.index = @ + 1], res |-> Res(s.tuples[s.index + 1], NilErr)]

OrderByEOF_next(s) ==
  IF s.index >= Len(s.tuples) THEN [s |-> s, res |-> Res(NilTup, EOF)]
  ELSE [s |-> [s EXCEPT !.index = @ + 1], res |-> Res(s.tuples[s.index + 1], NilErr)]

----------------------------------------------------------------------------
(* EqualityJoin *)

\* a right.Iterator whose pull function resumes where the last one stopped
OpenRight_resume(rc, s) ==
  IF ChildIterator(rc) # NilErr
    THEN [s |-> [s EXCEPT !.ropens = @ + 1, !.cerr = ChildIterator(rc)],
          err |-> ChildIterator(rc)]
    ELSE [s |-> [s EXCEPT !.ropens = @ + 1], err |-> NilErr]

\* rightIterator, err := right.Iterator(tid)
OpenRight(rc, s) ==
  IF ChildIterator(rc) # NilErr
    THEN [s |-> [s EXCEPT !.ropens = @ + 1, !.cerr = ChildIterator(rc)],
          err |-> ChildIterator(rc)]
    ELSE [s |-> [s EXCEPT !.rpos = 1, !.ropens = @ + 1], err |-> NilErr]

\* rightTuple, err := rightIterator()
rightIterator(rc, s) ==
  LET r == ChildNext(rc, s.rpos)
  IN [res |-> r.res,
      s |-> [s EXCEPT !.rpos = r.pos,
                      !.cerr = IF r.res.err # NilErr THEN r.res.err ELSE @]]

EqualityJoin_Iterator(joinOp, lc, rc, s) ==
  LET s1 == OpenChild(lc, s)
      r == OpenRight(rc, s1)
  IN IF s1.status # "open" THEN s1
     ELSE IF r.err # NilErr THEN Failed(r.s, r.err)
     ELSE [r.s EXCEPT !.leftTuple = NilTup]

RECURSIVE EqualityJoin_next(_, _, _, _)
EqualityJoin_inner(joinOp, lc, rc, s) ==
  LET r == rightIterator(rc, s)
      rightTuple == r.res.t
      leftValue == EvalExpr(joinOp.leftField, s.leftTuple)
      rightValue == EvalExpr(joinOp.rightField, rightTuple)
  IN IF r.res.err # NilErr THEN [s |-> r.s, res |-> Res(NilTup, r.res.err)]
     ELSE IF rightTuple.nil
       THEN EqualityJoin_next(joinOp, lc, rc, [r.s EXCEPT !.leftTuple = NilTup])
     ELSE IF leftValue.err # NilErr THEN [s |-> r.s, res |-> Res(NilTup, leftValue.err)]
     ELSE IF rightValue.err # NilErr THEN [s |-> r.s, res |-> Res(NilTup, rightValue.err)]
     ELSE IF leftValue.val = rightValue.val
       THEN [s |-> r.s, res |-> Res(joinTuples(s.leftTuple, rightTuple), NilErr)]
     ELSE EqualityJoin_next(joinOp, lc, rc, r.s)

EqualityJoin_next(joinOp, lc, rc, s) ==
  IF s.leftTuple.nil
    THEN LET l == childIter(lc, s)
             s1 == [l.s EXCEPT !.leftTuple = l.res.t]
             o == OpenRight(rc, s1)
         IN IF l.res.err # NilErr THEN [s |-> s1, res |-> Res(NilTup, l.res.err)]
            ELSE IF l.res.t.nil THEN [s |-> s1, res |-> Res(NilTup, NilErr)]
            ELSE IF o.err # NilErr THEN [s |-> o.s, res |-> Res(NilTup, o.err)]
            ELSE EqualityJoin_inner(joinOp, lc, rc, o.s)
    ELSE EqualityJoin_inner(joinOp, lc, rc, s)

----------------------------------------------------------------------------
(* Aggregator.  a.newAggState holds the addresses of the templates; the    *)
(* map aggState takes a group key to a slice of addresses, 0 for nil.      *)

DefaultGroup == 0

\* the loop of Iterator that copies the templates (no group-by)
RECURSIVE CopyTemplates(_, _, _, _)
CopyTemplates(a, h, newAggState, i) ==
  LET Add(copy) == CopyTemplates(a, copy.heap, Append(newAggState, copy.addr), i + 1)
  IN IF i > Len(a.newAggState) THEN [heap |-> h, newAggState |-> newAggState]
     ELSE Add(Copy(h, a.newAggState[i]))

Aggregator_Iterator(a, c, s, h) ==
  LET Copied(s1, cp) ==
        [s |-> [s1 EXCEPT !.aggState = (DefaultGroup :> cp.newAggState),
                          !.groupByList = <<>>, !.finalizedIter = "nil"],
         heap |-> cp.heap]
      Opened1(s1) ==
        IF s1.status # "open" THEN [s |-> s1, heap |-> h]
        ELSE IF a.groupByNil THEN Copied(s1, CopyTemplates(a, h, <<>>, 1))
        ELSE [s |-> [s1 EXCEPT !.aggState = <<>>, !.groupByList = <<>>,
                               !.finalizedIter = "nil"],
              heap |-> h]
  IN Opened1(OpenChild(c, s))

\* fmt.Sprintf("groupby_%d", i), by position
GroupByNames == <<"groupby_0", "groupby_1">>

\* Aggregator.Descriptor, the templates being on the heap h
Aggregator_Descriptor(a, h) ==
  LET n == Len(a.groupByFields)
      groupByDesc == [i \in 1..n |-> FieldType(GroupByNames[i],
                                               GetExprType(a.groupByFields[i]).Ftype)]
      RECURSIVE MergeAll(_, _)
      MergeAll(desc, i) ==
        IF i > Len(a.newAggState) THEN desc
        ELSE MergeAll(merge(desc, GetTupleDesc(h[a.newAggState[i]])), i + 1)
  IN IF a.groupByNil THEN MergeAll(<<>>, 1)
     ELSE merge(groupByDesc, MergeAll(<<>>, 1))

extractGroupByKeyTuple(a, t) ==
  LET n == Len(a.groupByFields)
      val == [i \in 1..n |-> EvalExpr(a.groupByFields[i], t)]
      failing == {i \in 1..n : val[i].err # NilErr}
      newDesc == [i \in 1..n |-> FieldType(GetExprType(a.groupByFields[i]).Fname,
                                           GetExprType(a.groupByFields[i]).Ftype)]
  IN IF a.groupByNil THEN [t |-> NilTup, err |-> <<"no group by fields defined">>]
     ELSE IF failing # {}
       THEN [t |-> NilTup,
             err |-> val[CHOOSE i \in failing : \A j \in failing : i <= j].err]
     ELSE [t |-> Tup([i \in 1..n |-> val[i].val], newDesc), err |-> NilErr]

\* addTupleToGrpAggState adding the tuple only to the accumulators it creates
RECURSIVE addTupleToGrpAggState_newOnly(_, _, _, _, _)
addTupleToGrpAggState_newOnly(a, t, grpAggState, h, i) ==
  LET Add(copy) ==
        addTupleToGrpAggState_newOnly(a, t, [grpAggState EXCEPT ![i] = copy.addr],
                                      AddTuple(copy.heap, copy.addr, t), i + 1)
  IN IF i > Len(grpAggState) THEN [grpAggState |-> grpAggState, heap |-> h]
     ELSE IF grpAggState[i] = 0 THEN Add(Copy(h, a.newAggState[i]))
     ELSE addTupleToGrpAggState_newOnly(a, t, grpAggState, h, i + 1)

RECURSIVE addTupleToGrpAggState(_, _, _, _, _)
addTupleToGrpAggState(a, t, grpAggState, h, i) ==
  LET Add(copy) ==
        addTupleToGrpAggState(a, t, [grpAggState EXCEPT ![i] = copy.addr],
                              AddTuple(copy.heap, copy.addr, t), i + 1)
  IN IF i > Len(grpAggState) THEN [grpAggState |-> grpAggState, heap |-> h]
     ELSE IF grpAggState[i] = 0 THEN Add(Copy(h, a.newAggState[i]))
     ELSE Add([heap |-> h, addr |-> grpAggState[i]])

\* the loop of the no-group-by case adding the tuple to the templates
RECURSIVE AddToDefaultGroup_templates(_, _, _, _, _)
AddToDefaultGroup_templates(a, t, grpAggState, h, i) ==
  IF i > Len(a.newAggState) THEN h
  ELSE AddToDefaultGroup_templates(a, t, grpAggState,
                                   AddTuple(h, a.newAggState[i], t), i + 1)

\* the loop of the no-group-by case: AddTuple on every copy of the default group
RECURSIVE AddToDefaultGroup(_, _, _, _, _)
AddToDefaultGroup(a, t, grpAggState, h, i) ==
  IF i > Len(a.newAggState) THEN h
  ELSE AddToDefaultGroup(a, t, grpAggState, AddTuple(h, grpAggState[i], t), i + 1)

\* the loop of the pull function over the child's tuples; done says that the
\* loop ended because the child was exhausted
RECURSIVE Aggregator_drain(_, _, _, _)
Aggregator_drain(a, c, s, h) ==
  LET asNew == [i \in 1..Len(a.newAggState) |-> 0]
      Return(r, done, e) ==
        [s |-> r.s, heap |-> h, done |-> done, res |-> Res(NilTup, e)]
      Added(r, key, aggState1, groupByList1, g) ==
        Aggregator_drain(a, c,
          [r.s EXCEPT !.aggState = [aggState1 EXCEPT ![key] = g.grpAggState],
                      !.groupByList = groupByList1],
          g.heap)
      Lookup(r, keygenTup, key, isNew, aggState1) ==
        Added(r, key, aggState1,
              IF isNew THEN Append(r.s.groupByList, keygenTup.t) ELSE r.s.groupByList,
              addTupleToGrpAggState(a, r.res.t, aggState1[key], h, 1))
      Keyed(r, keygenTup, key, isNew) ==
        Lookup(r, keygenTup, key, isNew,
               IF isNew THEN r.s.aggState @@ (key :> asNew) ELSE r.s.aggState)
      Grouped(r, keygenTup, key) ==
        IF keygenTup.err # NilErr THEN Return(r, FALSE, keygenTup.err)
        ELSE Keyed(r, keygenTup, key, key \notin DOMAIN r.s.aggState)
      Body(r) ==
        IF r.res.err # NilErr THEN Return(r, FALSE, r.res.err)
        ELSE IF r.res.t.nil THEN Return(r, TRUE, NilErr)
        ELSE IF a.groupByNil
          THEN Aggregator_drain(a, c, r.s,
                 AddToDefaultGroup(a, r.res.t, r.s.aggState[DefaultGroup], h, 1))
        ELSE (LET Key(keygenTup) == Grouped(r, keygenTup, tupleKey(keygenTup.t))
              IN Key(extractGroupByKeyTuple(a, r.res.t)))
  IN Body(childIter(c, s))

\* the loops that finalize and join the accumulators of one group
RECURSIVE FinalizeAll(_, _, _, _, _)
FinalizeAll(states, h, nan, tup, i) ==
  IF i > Len(states) THEN tup
  ELSE FinalizeAll(states, h, nan, joinTuples(tup, Finalize(h[states[i]], nan)), i + 1)

\* the function getFinalizedTuplesIterator returns
getFinalizedTuplesIterator(a, s, h, nan) ==
  LET Result(groupByTuple, groupAggStates) ==
        IF Len(groupAggStates) = 0 THEN NilTup
        ELSE FinalizeAll(groupAggStates, h, nan,
                         joinTuples(groupByTuple, Finalize(h[groupAggStates[1]], nan)), 2)
      Group(groupByTuple) == Result(groupByTuple, s.aggState[tupleKey(groupByTuple)])
  IN IF s.currentIndex >= Len(s.groupByList) THEN [s |-> s, res |-> Res(NilTup, NilErr)]
     ELSE [s |-> [s EXCEPT !.currentIndex = @ + 1],
           res |-> Res(Group(s.groupByList[s.currentIndex + 1]), NilErr)]

finalizedIter(a, s, h, nan) ==
  IF s.finalizedIter = "empty" THEN [s |-> s, res |-> Res(NilTup, NilErr)]
  ELSE getFinalizedTuplesIterator(a, s, h, nan)

Aggregator_next(a, c, s, h, nan) ==
  LET Finish(d) ==
        IF ~d.done THEN [s |-> d.s, res |-> d.res]
        ELSE IF d.s.finalizedIter = "nil"
          THEN IF a.groupByNil
                 THEN [s |-> [d.s EXCEPT !.finalizedIter = "empty"],
                       res |-> Res(FinalizeAll(d.s.aggState[DefaultGroup], d.heap, nan,
                                               NilTup, 1), NilErr)]
                 ELSE finalizedIter(a, [d.s EXCEPT !.finalizedIter = "groups",
                                                   !.currentIndex = 0], d.heap, nan)
        ELSE finalizedIter(a, d.s, d.heap, nan)
      Result(d, r) == [s |-> r.s, heap |-> d.heap, res |-> r.res]
      Drained(d) == Result(d, Finish(d))
  IN Drained(Aggregator_drain(a, c, s, h))

----------------------------------------------------------------------------
(* The inputs: children, operator configurations, storage failures. *)

BoundedSeq(S, n) == UNION {[1..m -> S] : m \in 0..n}

ChildDesc == <<FieldType("k", IntType), FieldType("v", IntType)>>
T(k, v) == Tup(<<k, v>>, ChildDesc)

\* the expressions over a child tuple: its key field and its value field
K == FieldExpr(1, "k", IntType)
V == FieldExpr(2, "v", IntType)

GoodTuples == {T(IntField(1), IntField(-2)), T(IntField(1), IntField(3)),
               T(IntField(2), IntField(3))}
Tuples == GoodTuples \cup {T(IntField(1), BadVal), T(BadVal, IntField(3))}
Item(t) == Res(t, NilErr)
ErrItem == Res(NilTup, ChildErr)
Items == {Item(t) : t \in Tuples} \cup {ErrItem}

Child(items, openErr, conv) == [items |-> items, openErr |-> openErr, conv |-> conv]
NoChild == Child(<<>>, NilErr, "nil")

\* children that signal exhaustion with (nil, nil), children that signal it
\* with io.EOF the way the OrderBy of order_by_op.go does, and a child whose
\* Iterator fails
Children(n) ==
  {Child(q, NilErr, "nil") : q \in BoundedSeq(Items, n)}
  \cup {Child(q, NilErr, "eof") : q \in BoundedSeq({Item(t) : t \in Tuples}, n)}
  \cup {Child(<<>>, OpenErr, "nil")}

LeftTuples == {T(IntField(1), IntField(1)), T(IntField(2), IntField(1)),
               T(BadVal, IntField(1))}
RightTuples == {T(IntField(1), IntField(5)), T(IntField(1), IntField(6)),
                T(IntField(2), IntField(5)), T(BadVal, IntField(5))}
JoinChildren(ts, n) ==
  {Child(q, NilErr, "nil") : q \in BoundedSeq({Item(t) : t \in ts} \cup {ErrItem}, n)}
  \cup {Child(<<>>, OpenErr, "nil"), Child(<<>>, NilErr, "eof")}

NoCfg ==
  [op |-> "OpEq", left |-> V, right |-> V,
   selectFields |-> <<>>, outputNames |-> <<>>, distinct |-> FALSE,
   limitTups |-> V,
   orderBy |-> <<>>, ascending |-> <<>>,
   groupByNil |-> TRUE, groupByFields |-> <<>>, newAggState |-> <<>>,
   leftField |-> K, rightField |-> K]

\* NewFilter(constExpr, op, field, child)
NewFilter(constExpr, bop, field) ==
  [NoCfg EXCEPT !.op = bop, !.left = field, !.right = constExpr]
FilterCfgs ==
  {NewFilter(ConstExpr(IntField(3), IntType), "OpEq", V),
   NewFilter(ConstExpr(IntField(1), IntType), "OpGt", V),
   NewFilter(ConstExpr(BadVal, IntType), "OpGt", V)}

\* NewProjectOp(selectFields, outputNames, distinct, child)
NewProjectOp(selectFields, outputNames, distinct) ==
  [NoCfg EXCEPT !.selectFields = selectFields, !.outputNames = outputNames,
                !.distinct = distinct]
ProjectCfgs ==
  {NewProjectOp(f[1], f[2], d) : f \in {<<<<V>>, <<"a">>>>, <<<<V, K>>, <<"a", "b">>>>},
                                 d \in BOOLEAN}

\* NewLimitOp(lim, child)
NewLimitOp(lim) == [NoCfg EXCEPT !.limitTups = lim]
LimitCfgs ==
  {NewLimitOp(ConstExpr(v, v[1])) :
     v \in {IntField(-1), IntField(0), IntField(1), IntField(2), StringField(1), BadVal}}

\* NewOrderBy(orderByFields, child, ascending)
NewOrderBy(orderByFields, ascending) ==
  [NoCfg EXCEPT !.orderBy = orderByFields, !.ascending = ascending]
OrderByCfgs ==
  {NewOrderBy(<<>>, <<>>), NewOrderBy(<<V>>, <<TRUE>>), NewOrderBy(<<V>>, <<FALSE>>),
   NewOrderBy(<<K, V>>, <<TRUE, FALSE>>)}

\* NewAggregator(emptyAggState, child)
NewAggregator(emptyAggState) ==
  [NoCfg EXCEPT !.groupByNil = TRUE, !.groupByFields = <<>>,
                !.newAggState = emptyAggState]
\* NewGroupedAggregator(emptyAggState, groupByFields, child), the slice
\* groupByFields being non-nil
NewGroupedAggregator(emptyAggState, groupByFields) ==
  [NoCfg EXCEPT !.groupByNil = FALSE, !.groupByFields = groupByFields,
                !.newAggState = emptyAggState]

AggKinds == {"count", "sum", "avg", "max", "min"}
AggLists == {<<k>> : k \in AggKinds}
            \cup {<<"sum", "count">>, <<"max", "min">>, <<"count", "avg">>}
Alias(i) == IF i = 1 THEN "a1" ELSE "a2"
\* the templates, initialized, at the addresses 1..Len(kinds)
Templates(kinds) == [i \in 1..Len(kinds) |-> AggInit(kinds[i], Alias(i), V)]
Addrs(kinds) == [i \in 1..Len(kinds) |-> i]
AggCfgs(kinds) ==
  {NewAggregator(Addrs(kinds)), NewGroupedAggregator(Addrs(kinds), <<>>),
   NewGroupedAggregator(Addrs(kinds), <<K>>)}

\* NewJoin(left, leftField, right, rightField, maxBufferSize)
NewJoin(leftField, rightField) ==
  [NoCfg EXCEPT !.leftField = leftField, !.rightField = rightField]
\* the error NewJoin returns with the join: nil, whatever the expressions
NewJoin_err(leftField, rightField) == NilErr

FailSets(n) == {{}, {1, 2}} \cup {{j} : j \in 1..n}
NaNInts == {0, -2147483647}

Iters == 1..MaxIters

InitIters ==
  /\ it = [i \in Iters |-> NoIter]
  /\ out = [i \in Iters |-> <<>>]
  /\ calls = <<>>

InitOne(o, cfgs) ==
  /\ op = o
  /\ cfg \in cfgs
  /\ left \in Children(MaxLen)
  /\ right = NoChild
  /\ storeFail = {}
  /\ nanInt = 0
  /\ heap = <<>>

InitAgg ==
  \E kinds \in AggLists :
    /\ op = "Aggregator"
    /\ cfg \in AggCfgs(kinds)
    /\ left \in Children(MaxLen)
    /\ right = NoChild
    /\ storeFail = {}
    /\ nanInt \in (IF \E i \in 1..Len(kinds) : kinds[i] = "avg" THEN NaNInts ELSE {0})
    /\ heap = Templates(kinds)

InitJoin ==
  /\ op = "EqualityJoin"
  /\ NewJoin_err(K, K) = NilErr
  /\ cfg = NewJoin(K, K)
  /\ left \in JoinChildren(LeftTuples, MaxJoinLen)
  /\ right \in JoinChildren(RightTuples, MaxJoinLen)
  /\ storeFail = {}
  /\ nanInt = 0
  /\ heap = <<>>

\* an OrderBy on a string field; a string is represented by its rank in the
\* lexicographic order
StrDesc == <<FieldType("k", StringType), FieldType("v", IntType)>>
KS == FieldExpr(1, "k", StringType)
StrTuples == {Tup(<<StringField(k), IntField(v)>>, StrDesc) : k \in {1, 2}, v \in {1, 2}}
InitOrderByStr ==
  /\ op = "OrderBy"
  /\ cfg \in {NewOrderBy(<<KS>>, <<asc>>) : asc \in BOOLEAN}
  /\ left \in {Child(q, NilErr, "nil") : q \in BoundedSeq({Item(t) : t \in StrTuples}, MaxLen)}
  /\ right = NoChild
  /\ storeFail = {}
  /\ nanInt = 0
  /\ heap = <<>>

\* a join on a string field of both children
InitJoinStr ==
  /\ op = "EqualityJoin"
  /\ NewJoin_err(KS, KS) = NilErr
  /\ cfg = NewJoin(KS, KS)
  /\ left \in {Child(q, NilErr, "nil") :
                 q \in BoundedSeq({Item(t) : t \in StrTuples}, MaxJoinLen)}
  /\ right \in {Child(q, NilErr, "nil") :
                  q \in BoundedSeq({Item(t) : t \in StrTuples}, MaxJoinLen)}
  /\ storeFail = {}
  /\ nanInt = 0
  /\ heap = <<>>

InitStore(o) ==
  /\ op = o
  /\ cfg = NoCfg
  /\ left \in Children(MaxLen)
  /\ right = NoChild
  /\ storeFail \in FailSets(MaxLen)
  /\ nanInt = 0
  /\ heap = <<>>

Init ==
  /\ InitIters
  /\ \/ InitOne("Filter", FilterCfgs)
     \/ InitOne("Project", ProjectCfgs)
     \/ InitOne("LimitOp", LimitCfgs)
     \/ InitOne("OrderBy", OrderByCfgs)
     \/ InitOrderByStr
     \/ InitOne("OrderByEOF", OrderByCfgs)
     \/ InitAgg
     \/ InitJoin
     \/ InitJoinStr
     \/ InitStore("InsertOp")
     \/ InitStore("DeleteOp")

----------------------------------------------------------------------------
(* The actions: one Iterator call or one call of a pull function.          *)

\* an end-of-stream signal: no tuple, and either no error or io.EOF
IsEnd(r) == r.t.nil /\ r.err \in {NilErr, EOF}
EndCount(o) == Cardinality({k \in 1..Len(o) : IsEnd(o[k])})

\* the closure state at the start of a call
Call(s) == [s EXCEPT !.cerr = NilErr]

CanOpen(i, o) == op = o /\ it[i].status = "none"
\* more pulls than any iterator needs to reach the end of its stream
PullCap == MaxLen * MaxLen + MaxLen + MaxAfterEnd
CanPull(i, o) ==
  /\ op = o
  /\ it[i].status = "open"
  /\ EndCount(out[i]) < MaxAfterEnd
  /\ Len(out[i]) < PullCap

Opened(i, s) ==
  /\ it' = [it EXCEPT ![i] = s]
  /\ UNCHANGED <<op, cfg, left, right, storeFail, nanInt, heap, out, calls>>

Pulled(i, r) ==
  /\ it' = [it EXCEPT ![i] = r.s]
  /\ out' = [out EXCEPT ![i] = Append(@, r.res)]
  /\ UNCHANGED <<op, cfg, left, right, storeFail, nanInt, heap, calls>>

FilterOpen(i) == CanOpen(i, "Filter") /\ Opened(i, Filter_Iterator(cfg, left, Call(it[i])))
FilterPull(i) == CanPull(i, "Filter") /\ Pulled(i, Filter_next(cfg, left, Call(it[i])))

ProjectOpen(i) ==
  /\ CanOpen(i, "Project")
  /\ LET r == Project_Iterator(cfg, left, Call(it[i]), heap)
     IN /\ it' = [it EXCEPT ![i] = r.s]
        /\ heap' = r.heap
  /\ UNCHANGED <<op, cfg, left, right, storeFail, nanInt, out, calls>>

ProjectPull(i) ==
  /\ CanPull(i, "Project")
  /\ LET r == Project_next(cfg, left, Call(it[i]), heap)
     IN /\ it' = [it EXCEPT ![i] = r.s]
        /\ heap' = r.heap
        /\ out' = [out EXCEPT ![i] = Append(@, r.res)]
  /\ UNCHANGED <<op, cfg, left, right, storeFail, nanInt, calls>>

LimitOpen(i) == CanOpen(i, "LimitOp") /\ Opened(i, LimitOp_Iterator(cfg, left, Call(it[i])))
LimitPull(i) == CanPull(i, "LimitOp") /\ Pulled(i, LimitOp_next(cfg, left, Call(it[i])))

OrderByOpen(i) == CanOpen(i, "OrderBy") /\ Opened(i, OrderBy_Iterator(cfg, left, Call(it[i])))
OrderByPull(i) == CanPull(i, "OrderBy") /\ Pulled(i, OrderBy_next(Call(it[i])))

OrderByEOFOpen(i) ==
  CanOpen(i, "OrderByEOF") /\ Opened(i, OrderByEOF_Iterator(cfg, left, Call(it[i])))
OrderByEOFPull(i) == CanPull(i, "OrderByEOF") /\ Pulled(i, OrderByEOF_next(Call(it[i])))

JoinOpen(i) ==
  CanOpen(i, "EqualityJoin") /\ Opened(i, EqualityJoin_Iterator(cfg, left, right, Call(it[i])))
JoinPull(i) ==
  CanPull(i, "EqualityJoin") /\ Pulled(i, EqualityJoin_next(cfg, left, right, Call(it[i])))

AggOpen(i) ==
  /\ CanOpen(i, "Aggregator")
  /\ LET r == Aggregator_Iterator(cfg, left, Call(it[i]), heap)
     IN /\ it' = [it EXCEPT ![i] = r.s]
        /\ heap' = r.heap
  /\ UNCHANGED <<op, cfg, left, right, storeFail, nanInt, out, calls>>

AggPull(i) ==
  /\ CanPull(i, "Aggregator")
  /\ LET r == Aggregator_next(cfg, left, Call(it[i]), heap, nanInt)
     IN /\ it' = [it EXCEPT ![i] = r.s]
        /\ heap' = r.heap
        /\ out' = [out EXCEPT ![i] = Append(@, r.res)]
  /\ UNCHANGED <<op, cfg, left, right, storeFail, nanInt, calls>>

InsertOpen(i) == CanOpen(i, "InsertOp") /\ Opened(i, InsertOp_Iterator(cfg, left, Call(it[i])))
InsertPull(i) ==
  /\ CanPull(i, "InsertOp")
  /\ LET r == InsertOp_next(left, storeFail, Call(it[i]), calls)
     IN /\ it' = [it EXCEPT ![i] = r.s]
        /\ out' = [out EXCEPT ![i] = Append(@, r.res)]
        /\ calls' = r.log
  /\ UNCHANGED <<op, cfg, left, right, storeFail, nanInt, heap>>

DeleteOpen(i) == CanOpen(i, "DeleteOp") /\ Opened(i, DeleteOp_Iterator(cfg, left, Call(it[i])))
DeletePull(i) ==
  /\ CanPull(i, "DeleteOp")
  /\ LET r == DeleteOp_next(left, storeFail, Call(it[i]), calls)
     IN /\ it' = [it EXCEPT ![i] = r.s]
        /\ out' = [out EXCEPT ![i] = Append(@, r.res)]
        /\ calls' = r.log
  /\ UNCHANGED <<op, cfg, left, right, storeFail, nanInt, heap>>

Next ==
  \/ FilterOpen(1) \/ FilterPull(1)
  \/ ProjectOpen(1) \/ ProjectPull(1)
  \/ LimitOpen(1) \/ LimitPull(1)
  \/ OrderByOpen(1) \/ OrderByPull(1)
  \/ OrderByEOFOpen(1) \/ OrderByEOFPull(1)
  \/ JoinOpen(1) \/ JoinPull(1)
  \/ AggOpen(1) \/ AggPull(1)
  \/ InsertOpen(1) \/ InsertPull(1)
  \/ DeleteOpen(1) \/ DeletePull(1)

Spec == Init /\ [][Next]_vars

----------------------------------------------------------------------------
(* Helpers of the properties. *)

Last(q) == q[Len(q)]

\* the tuples among the results of a sequence of pulls, in order
RECURSIVE OutTuples(_)
OutTuples(o) ==
  IF o = <<>> THEN <<>>
  ELSE IF Head(o).t.nil THEN OutTuples(Tail(o))
  ELSE <<Head(o).t>> \o OutTuples(Tail(o))

\* the tuples of a child, in order
TuplesOf(c) == OutTuples(c.items)

\* the iterator has signalled exhaustion with (nil, nil)
Exhausted(i) == \E k \in 1..Len(out[i]) : out[i][k] = Res(NilTup, NilErr)

----------------------------------------------------------------------------
(* C1: once a pull function has signalled the end of the stream (no tuple,  *)
(* with a nil error or, for the OrderBy of order_by_op.go, with io.EOF),    *)
(* every later call of it signals the end of the stream too and returns no *)
(* tuple.                                                                  *)
C1_ExhaustionIsPermanent ==
  \A i \in Iters : \A k, m \in 1..Len(out[i]) :
    (k < m /\ IsEnd(out[i][k])) => IsEnd(out[i][m])

\* an InsertOp that returned its count tuple and then signalled the end twice
C1_Witness ==
  /\ op = "InsertOp"
  /\ Len(out[1]) >= 3
  /\ ~out[1][Len(out[1]) - 2].t.nil
  /\ IsEnd(out[1][Len(out[1]) - 1])
  /\ IsEnd(Last(out[1]))

----------------------------------------------------------------------------
(* C2: every operator signals the end of the stream with (nil, nil) and    *)
(* recognises that signal from its child: no Iterator call fails to stop   *)
(* at the child's (nil, nil), and no pull reports io.EOF as its error.     *)
C2_OneExhaustionConvention ==
  \A i \in Iters :
    /\ it[i].status # "diverged"
    /\ \A k \in 1..Len(out[i]) : out[i][k].err # EOF

----------------------------------------------------------------------------
(* C3: when a child's pull function or a child's Iterator returned an      *)
(* error (an error proper, not the io.EOF that signals exhaustion) to a    *)
(* call of the operator, that call returns the same error value and no     *)
(* tuple.                                                                  *)
C3_ChildErrorPropagates ==
  \A i \in Iters :
    it[i].cerr \notin {NilErr, EOF} =>
      IF it[i].status = "open"
        THEN Len(out[i]) > 0 /\ Last(out[i]) = Res(NilTup, it[i].cerr)
        ELSE it[i].status = "failed" /\ it[i].err = it[i].cerr

\* a LimitOp whose child returned an error after a tuple was passed through
C3_Witness ==
  /\ op = "LimitOp"
  /\ Len(out[1]) >= 2
  /\ ~out[1][1].t.nil
  /\ it[1].cerr = ChildErr
  /\ Last(out[1]) = Res(NilTup, ChildErr)

----------------------------------------------------------------------------
(* C4: an EqualityJoin pulled to exhaustion has emitted, for the pairs     *)
(* (l, r) of a left and a right tuple whose keys evaluate to equal values, *)
(* exactly the tuples l ++ r, each pair once, ordered by the left tuple    *)
(* and, for one left tuple, by the right tuple.                            *)

\* the value of the key field of a child tuple; no value when it is BadVal
HasKey(t) == t.f[1] # BadVal

\* every pair of a left and a right tuple, the left tuple being the major index
AllPairs(ls, rs) ==
  [n \in 1..(Len(ls) * Len(rs)) |->
     <<ls[((n - 1) \div Len(rs)) + 1], rs[((n - 1) % Len(rs)) + 1]>>]
KeysMatch(p) == HasKey(p[1]) /\ HasKey(p[2]) /\ p[1].f[1] = p[2].f[1]
MatchingPairs(ls, rs) == SelectSeq(AllPairs(ls, rs), KeysMatch)
JoinExpected ==
  LET ps == MatchingPairs(TuplesOf(left), TuplesOf(right))
  IN [n \in 1..Len(ps) |-> Tup(ps[n][1].f \o ps[n][2].f, ps[n][1].d \o ps[n][2].d)]

C4_JoinEmitsMatchingPairs ==
  (op = "EqualityJoin" /\ Exhausted(1)) => OutTuples(out[1]) = JoinExpected

\* two left tuples that both match the right tuples: three pairs or more,
\* the second left tuple needing a second scan of the right child
C4_Witness ==
  /\ op = "EqualityJoin"
  /\ Exhausted(1)
  /\ Len(TuplesOf(left)) = 2
  /\ HasKey(TuplesOf(left)[2])
  /\ Len(OutTuples(out[1])) >= 3
  /\ Last(OutTuples(out[1])).f[1] = TuplesOf(left)[2].f[1]

----------------------------------------------------------------------------
(* The aggregate values, defined on sequences of integers. *)

HasValue(t) == t.f[2] # BadVal
ValueOf(t) == t.f[2][2]
ValuesOf(ts) == [n \in 1..Len(ts) |-> ValueOf(ts[n])]

RECURSIVE SumOf(_)
SumOf(q) == IF q = <<>> THEN 0 ELSE Head(q) + SumOf(Tail(q))
Abs(x) == IF x < 0 THEN -x ELSE x
\* the quotient s / n truncated toward zero
TruncQuot(s, n) ==
  CHOOSE z \in -Abs(s)..Abs(s) :
    z * s >= 0 /\ Abs(z) * n <= Abs(s) /\ Abs(s) < (Abs(z) + 1) * n
MaxOf(q) == CHOOSE x \in {q[n] : n \in DOMAIN q} : \A n \in DOMAIN q : q[n] <= x
MinOf(q) == CHOOSE x \in {q[n] : n \in DOMAIN q} : \A n \in DOMAIN q : x <= q[n]

\* over no value: Count and Sum are 0, Max and Min hold the zero of their
\* field, Avg converts 0 / 0
AggValue(kind, q, nan) ==
  CASE kind = "count" -> Len(q)
    [] kind = "sum" -> SumOf(q)
    [] kind = "avg" -> IF q = <<>> THEN nan ELSE TruncQuot(SumOf(q), Len(q))
    [] kind = "max" -> IF q = <<>> THEN 0 ELSE MaxOf(q)
    [] kind = "min" -> IF q = <<>> THEN 0 ELSE MinOf(q)

\* the kinds of the templates of the Aggregator under test
KindOf(j) == heap[cfg.newAggState[j]].kind
\* the aggregate fields over the tuples ts, in template order, and their types
AggFields(ts) ==
  [j \in 1..Len(cfg.newAggState) |-> IntField(AggValue(KindOf(j), ValuesOf(ts), nanInt))]
AggDesc == [j \in 1..Len(cfg.newAggState) |-> FieldType(Alias(j), IntType)]

----------------------------------------------------------------------------
(* C5: a grouped Aggregator pulled to exhaustion over a child whose tuples *)
(* all have an evaluable value has emitted one tuple per distinct group    *)
(* key, in the order in which the keys were first seen; each tuple is the  *)
(* key followed by the aggregate of every template, in template order,     *)
(* over exactly the child tuples that have that key.                       *)

\* the group key of a child tuple: the values of the group-by fields
GroupKey(t) == [n \in 1..Len(cfg.groupByFields) |-> t.f[cfg.groupByFields[n].idx]]
HasGroupKey(t) == \A n \in 1..Len(cfg.groupByFields) : GroupKey(t)[n] # BadVal
GroupKeyDesc ==
  [n \in 1..Len(cfg.groupByFields) |->
     FieldType(cfg.groupByFields[n].fname, cfg.groupByFields[n].ftype)]

\* the distinct keys of the tuples ts, in first-seen order
RECURSIVE FirstSeenKeys(_)
FirstSeenKeys(ts) ==
  IF ts = <<>> THEN <<>>
  ELSE LET before == FirstSeenKeys(SubSeq(ts, 1, Len(ts) - 1))
           k == GroupKey(ts[Len(ts)])
       IN IF \E n \in 1..Len(before) : before[n] = k THEN before
          ELSE Append(before, k)

KeyedTuples == SelectSeq(TuplesOf(left), HasGroupKey)
GroupOf(k) == SelectSeq(KeyedTuples, LAMBDA t : GroupKey(t) = k)
GroupedExpected ==
  LET keys == FirstSeenKeys(KeyedTuples)
  IN [n \in 1..Len(keys) |->
        Tup(keys[n] \o AggFields(GroupOf(keys[n])), GroupKeyDesc \o AggDesc)]

AllHaveValue == \A n \in 1..Len(TuplesOf(left)) : HasValue(TuplesOf(left)[n])

----------------------------------------------------------------------------
----------------------------------------------------------------------------
(* One accumulator on its own: a template is initialized, copied, and the  *)
(* copy is fed the tuples of a stream and finalized.                       *)

AccValues == {-3, -2, 2, 3}
AccStreams ==
  {Child(q, NilErr, "nil") :
     q \in BoundedSeq({Item(T(IntField(1), IntField(v))) : v \in AccValues}, MaxAccLen)}

InitAcc ==
  /\ InitIters
  /\ op = "AggState"
  /\ cfg = NoCfg
  /\ left \in AccStreams
  /\ right = NoChild
  /\ storeFail = {}
  /\ \E kind \in AggKinds :
       /\ heap = <<AggInit(kind, Alias(1), V)>>
       /\ nanInt \in (IF kind = "avg" THEN NaNInts ELSE {0})

\* copy := template.Copy()
AccCopy ==
  /\ op = "AggState"
  /\ it[1].status = "none"
  /\ heap' = Copy(heap, 1).heap
  /\ it' = [it EXCEPT ![1] = [@ EXCEPT !.status = "open", !.pos = 1,
                                       !.aggState = <<Copy(heap, 1).addr>>]]
  /\ UNCHANGED <<op, cfg, left, right, storeFail, nanInt, out, calls>>

\* copy.AddTuple(t), t the next tuple of the stream
AccAddTuple ==
  /\ op = "AggState"
  /\ it[1].status = "open"
  /\ out[1] = <<>>
  /\ it[1].pos <= Len(left.items)
  /\ heap' = AddTuple(heap, it[1].aggState[1], left.items[it[1].pos].t)
  /\ it' = [it EXCEPT ![1].pos = @ + 1]
  /\ UNCHANGED <<op, cfg, left, right, storeFail, nanInt, out, calls>>

\* copy.Finalize()
AccFinalize ==
  /\ op = "AggState"
  /\ it[1].status = "open"
  /\ out[1] = <<>>
  /\ out' = [out EXCEPT ![1] = <<Res(Finalize(heap[it[1].aggState[1]], nanInt), NilErr)>>]
  /\ UNCHANGED <<op, cfg, left, right, storeFail, nanInt, heap, it, calls>>

NextAcc == AccCopy \/ AccAddTuple \/ AccFinalize

SpecAcc == InitAcc /\ [][NextAcc]_vars

----------------------------------------------------------------------------
(* C7: a copy of an initialized template fed the N >= 1 first tuples of a  *)
(* stream of integer values finalizes to N (Count), to their sum (Sum), to *)
(* the sum divided by N truncated toward zero (Avg), to the largest of     *)
(* them (Max) and to the smallest of them (Min), whatever their signs.     *)

\* the values fed to the copy so far
AccFed == ValuesOf(SubSeq(TuplesOf(left), 1, it[1].pos - 1))

C7_AccumulatorValues ==
  (op = "AggState" /\ out[1] # <<>> /\ AccFed # <<>>)
    => out[1][1].t = Tup(<<IntField(AggValue(heap[1].kind, AccFed, nanInt))>>,
                         <<FieldType(Alias(1), IntType)>>)

\* a Max over two or more values that are all negative
C7_Witness ==
  /\ op = "AggState"
  /\ heap[1].kind = "max"
  /\ out[1] # <<>>
  /\ Len(AccFed) >= 2
  /\ \A n \in 1..Len(AccFed) : AccFed[n] < 0
  /\ out[1][1].t.f = <<IntField(-2)>>

----------------------------------------------------------------------------
(* C8: when the expression of a Sum, Avg, Max or Min accumulator fails to  *)
(* evaluate on a child tuple that a pull of the Aggregator folds into a    *)
(* group, that pull returns an error.                                      *)

\* the call of the pull function in this step consumed a tuple with a group
\* and without a value, and some template is not a Count
C8_FoldsFailingTuple ==
  /\ op = "Aggregator"
  /\ Len(out'[1]) = Len(out[1]) + 1
  /\ \E j \in 1..Len(cfg.newAggState) : KindOf(j) # "count"
  /\ \E p \in it[1].pos..(it'[1].pos - 1) :
       /\ ~left.items[p].t.nil
       /\ ~HasValue(left.items[p].t)
       /\ (cfg.groupByNil \/ HasGroupKey(left.items[p].t))

C8_EvalFailurePropagates ==
  [][C8_FoldsFailingTuple => Last(out'[1]).err # NilErr]_vars

----------------------------------------------------------------------------
(* Two iterators of one Aggregator, their calls interleaved. *)

TwoAggLists == {<<"sum">>, <<"count", "max">>}
TwoStreams ==
  {Child(q, NilErr, "nil") : q \in BoundedSeq({Item(t) : t \in GoodTuples}, MaxTwoLen)}

InitTwo ==
  /\ InitIters
  /\ \E kinds \in TwoAggLists :
       /\ op = "Aggregator"
       /\ cfg \in AggCfgs(kinds)
       /\ heap = Templates(kinds)
  /\ left \in TwoStreams
  /\ right = NoChild
  /\ storeFail = {}
  /\ nanInt = 0

NextTwo == \E i \in Iters : AggOpen(i) \/ AggPull(i)

SpecTwo == InitTwo /\ [][NextTwo]_vars

----------------------------------------------------------------------------
(* C9: the templates of an Aggregator never change; the accumulators of    *)
(* every group of every iterator are objects of their own that hold the    *)
(* fold of exactly the tuples that iterator consumed for that group; and   *)
(* two iterators of the Aggregator return the same results.                *)

RECURSIVE FoldAcc(_, _)
FoldAcc(acc, ts) ==
  IF ts = <<>> THEN acc ELSE FoldAcc(AddTupleStruct(acc, Head(ts)), Tail(ts))

\* the tuples iterator i has consumed for the group key
ConsumedFor(i, key) ==
  LET ts == OutTuples(SubSeq(left.items, 1, it[i].pos - 1))
  IN IF cfg.groupByNil THEN ts
     ELSE SelectSeq(ts, LAMBDA t : HasGroupKey(t) /\ GroupKey(t) = key)

\* the accumulators in use: iterator, group key, template index
AccSlots ==
  {<<i, key, j>> \in Iters \X (UNION {DOMAIN it[i].aggState : i \in Iters})
                          \X (1..Len(cfg.newAggState)) :
     it[i].status = "open" /\ key \in DOMAIN it[i].aggState}
AccAddr(x) == it[x[1]].aggState[x[2]][x[3]]

TemplatesUnchanged ==
  \A j \in 1..Len(cfg.newAggState) : heap[j] = AggInit(heap[j].kind, Alias(j), V)
AccumulatorsApart ==
  \A x \in AccSlots :
    /\ AccAddr(x) > Len(cfg.newAggState)
    /\ \A y \in AccSlots : x # y => AccAddr(x) # AccAddr(y)
    /\ heap[AccAddr(x)] = FoldAcc(CopyStruct(heap[x[3]]), ConsumedFor(x[1], x[2]))
SameResults ==
  \A i, k \in Iters : \A n \in 1..Len(out[i]) : n <= Len(out[k]) => out[i][n] = out[k][n]

C9_TemplatesAndFrame ==
  op = "Aggregator" => (TemplatesUnchanged /\ AccumulatorsApart /\ SameResults)

\* two iterators that both went through two groups to exhaustion
C9_Witness ==
  /\ op = "Aggregator"
  /\ cfg.groupByFields = <<K>>
  /\ Exhausted(1) /\ Exhausted(2)
  /\ Len(OutTuples(out[1])) = 2
  /\ OutTuples(out[2]) = OutTuples(out[1])

----------------------------------------------------------------------------
(* C10: an Aggregator constructed with an empty, non-nil group-by list and *)
(* pulled to exhaustion has emitted the tuples with the same fields as the *)
(* Aggregator constructed without a group-by list emits over that child.   *)

\* the tuples the pull function returns until it signals exhaustion
RECURSIVE AggRun(_, _, _, _, _)
AggRun(a, s, h, fuel, acc) ==
  LET Step(r) ==
        IF r.res = Res(NilTup, NilErr) THEN acc
        ELSE AggRun(a, r.s, r.heap, fuel - 1,
                    IF r.res.t.nil THEN acc ELSE Append(acc, r.res.t))
  IN IF fuel = 0 THEN acc ELSE Step(Aggregator_next(a, left, Call(s), h, nanInt))

UngroupedOutput ==
  LET Run(o) == AggRun(NewAggregator(cfg.newAggState), o.s, o.heap, PullCap, <<>>)
  IN Run(Aggregator_Iterator(NewAggregator(cfg.newAggState), left, NoIter,
                             SubSeq(heap, 1, Len(cfg.newAggState))))
FieldsOf(ts) == [n \in 1..Len(ts) |-> ts[n].f]

C10_EmptyGroupByIsNoGroupBy ==
  (op = "Aggregator" /\ ~cfg.groupByNil /\ cfg.groupByFields = <<>> /\ Exhausted(1))
    => FieldsOf(OutTuples(out[1])) = FieldsOf(UngroupedOutput)

----------------------------------------------------------------------------
(* C11: an OrderBy pulled to the end of its stream has emitted a           *)
(* permutation of the child's tuples in which every adjacent pair is in    *)
(* non-decreasing order under the multi-key comparison (the first          *)
(* differing key decides, in the direction of that key) and in which       *)
(* tuples equal on all keys keep the order they had in the child.          *)

\* the pull function has signalled the end of the stream
Ended(i) == \E k \in 1..Len(out[i]) : IsEnd(out[i][k])

\* the order-by keys on which two tuples differ
DifferingKeys(t1, t2) ==
  {n \in 1..Len(cfg.orderBy) : t1.f[cfg.orderBy[n].idx] # t2.f[cfg.orderBy[n].idx]}
FirstDiffering(t1, t2) ==
  CHOOSE n \in DifferingKeys(t1, t2) : \A m \in DifferingKeys(t1, t2) : n <= m
\* t1 comes strictly before t2 in the requested order
Before(t1, t2) ==
  /\ DifferingKeys(t1, t2) # {}
  /\ LET n == FirstDiffering(t1, t2)
         v1 == t1.f[cfg.orderBy[n].idx][2]
         v2 == t2.f[cfg.orderBy[n].idx][2]
     IN IF cfg.ascending[n] THEN v1 < v2 ELSE v1 > v2

Perms(n) == {f \in [1..n -> 1..n] : \A a, b \in 1..n : a # b => f[a] # f[b]}
StableSortOf(ts, outs) ==
  \E f \in Perms(Len(ts)) :
    /\ outs = [k \in 1..Len(ts) |-> ts[f[k]]]
    /\ \A k \in 1..(Len(ts) - 1) :
         /\ ~Before(ts[f[k + 1]], ts[f[k]])
         /\ DifferingKeys(ts[f[k]], ts[f[k + 1]]) = {} => f[k] < f[k + 1]

----------------------------------------------------------------------------
(* C12: over a child of K tuples that yields no error, with a storage that *)
(* never fails, the first pull of an InsertOp or DeleteOp makes exactly K  *)
(* storage calls, one per child tuple in child order, and returns one      *)
(* tuple whose single integer field is K; every later pull signals         *)
(* exhaustion and makes no further storage call.                           *)

StoreOps == {"InsertOp", "DeleteOp"}
StoreCall == IF op = "InsertOp" THEN "insertTuple" ELSE "deleteTuple"
\* the child yields tuples only and ends with (nil, nil)
PlainChild == left.conv = "nil" /\ Len(TuplesOf(left)) = Len(left.items)

C12_DrainCounts ==
  (op \in StoreOps /\ storeFail = {} /\ PlainChild /\ out[1] # <<>>)
    => /\ out[1][1] = Res(Tup(<<IntField(Len(left.items))>>,
                              <<FieldType("count", IntType)>>), NilErr)
       /\ calls = [n \in 1..Len(left.items) |->
                     [call |-> StoreCall, t |-> left.items[n].t, err |-> NilErr]]
       /\ \A k \in 2..Len(out[1]) : out[1][k] = Res(NilTup, NilErr)

\* a DeleteOp that deleted three tuples, returned the count 3 and was pulled
\* twice more
C12_Witness ==
  /\ op = "DeleteOp"
  /\ storeFail = {}
  /\ PlainChild
  /\ Len(left.items) = 3
  /\ Len(out[1]) = 3
  /\ out[1][1].t.f = <<IntField(3)>>
  /\ Len(calls) = 3

----------------------------------------------------------------------------
(* C13: a pull of an InsertOp or DeleteOp in which a storage call fails    *)
(* returns an error and no tuple; the failing call is the last storage     *)
(* call of the pull and its tuple the last child tuple the pull consumed;  *)
(* the calls made before it stay as they were; in the first pull the       *)
(* failure on the j-th child tuple comes with exactly j storage calls, one *)
(* per child tuple in child order.                                         *)

\* this step is a pull in which a storage call failed
C13_StorageFails ==
  /\ op \in StoreOps
  /\ Len(out'[1]) = Len(out[1]) + 1
  /\ \E n \in (Len(calls) + 1)..Len(calls') : calls'[n].err # NilErr

C13_Aborts ==
  /\ Last(out'[1]).t.nil
  /\ Last(out'[1]).err # NilErr
  /\ Last(calls').err # NilErr
  /\ \A n \in (Len(calls) + 1)..(Len(calls') - 1) : calls'[n].err = NilErr
  /\ SubSeq(calls', 1, Len(calls)) = calls
  /\ \A n \in 1..Len(calls') : calls'[n].call = StoreCall
  /\ it'[1].cpulls - it[1].cpulls = Len(calls') - Len(calls)
  /\ left.items[it'[1].pos - 1].t = Last(calls').t
  /\ (out[1] = <<>> /\ it[1].pos = 1) =>
       /\ Len(calls') = it'[1].pos - 1
       /\ \A n \in 1..Len(calls') : calls'[n].t = left.items[n].t

C13_StorageFailureAborts == [][C13_StorageFails => C13_Aborts]_vars

\* the insert of the second of three tuples failed in the first pull
C13_Witness ==
  /\ op = "InsertOp"
  /\ Len(TuplesOf(left)) = 3
  /\ PlainChild
  /\ Len(out[1]) = 1
  /\ out[1][1].t.nil
  /\ Len(calls) = 2
  /\ calls[1].err = NilErr
  /\ calls[2].err = StoreErr
  /\ it[1].pos = 3

----------------------------------------------------------------------------
(* C14: an error of the storage (insertTuple, deleteTuple) or of the       *)
(* evaluation of an expression (Filter operands, Project targets, group-by *)
(* keys, join keys, the limit expression) reaches the caller of the        *)
(* operator as the identical error value.                                  *)

\* the errors that the children hand to an operator
ChildErrors == {EOF, ChildErr, OpenErr}

\* the errors of the pulls are the child's or the identical storage error
C14_StorageErrorUnchanged ==
  op \in StoreOps =>
    \A k \in 1..Len(out[1]) :
      out[1][k].err \notin ({NilErr} \cup ChildErrors) => out[1][k].err = StoreErr
\* the error of a failed evaluation of the limit is the identical error
C14_LimitErrorUnchanged ==
  (op = "LimitOp" /\ it[1].status = "failed"
     /\ EvalExpr(cfg.limitTups, NilTup).err # NilErr)
    => it[1].err = EvalExpr(cfg.limitTups, NilTup).err
\* the errors of the pulls are the child's or the identical evaluation error
C14_EvalErrorUnchanged ==
  op \in {"Filter", "Project", "Aggregator", "EqualityJoin"} =>
    \A k \in 1..Len(out[1]) :
      out[1][k].err \notin ({NilErr} \cup ChildErrors) => out[1][k].err = EvalErr

C14_ErrorsReachCallerUnchanged ==
  C14_StorageErrorUnchanged /\ C14_LimitErrorUnchanged /\ C14_EvalErrorUnchanged

----------------------------------------------------------------------------
(* C15: the tuples a LimitOp with the limit n >= 0 has returned are always *)
(* among the first n tuples of the child, unchanged and in child order;    *)
(* once it has signalled exhaustion they are exactly the first min(n, m)   *)
(* of the m child tuples; with n = 0 the very first pull signals           *)
(* exhaustion.                                                             *)

Min(a, b) == IF a < b THEN a ELSE b
LimitN == cfg.limitTups.val[2]

C15_LimitPassesFirstN ==
  (op = "LimitOp" /\ it[1].status = "open") =>
    LET ts == TuplesOf(left)
        os == OutTuples(out[1])
    IN /\ Len(os) <= Min(LimitN, Len(ts))
       /\ os = SubSeq(ts, 1, Len(os))
       /\ Exhausted(1) => Len(os) = Min(LimitN, Len(ts))
       /\ (LimitN = 0 /\ out[1] # <<>>) => out[1][1] = Res(NilTup, NilErr)

\* the limit 2 over a child of three tuples
C15_Witness ==
  /\ op = "LimitOp"
  /\ it[1].status = "open"
  /\ LimitN = 2
  /\ Len(TuplesOf(left)) = 3
  /\ Exhausted(1)
  /\ Len(OutTuples(out[1])) = 2

----------------------------------------------------------------------------
(* C16: when the limit expression fails to evaluate, evaluates to a value  *)
(* that is not an integer, or evaluates to a negative integer, the         *)
(* Iterator call of LimitOp returns an error and no pull function, without *)
(* having opened the child's iterator or pulled a child tuple.             *)

BadLimit ==
  \/ EvalExpr(cfg.limitTups, NilTup).err # NilErr
  \/ EvalExpr(cfg.limitTups, NilTup).val[1] # IntType
  \/ EvalExpr(cfg.limitTups, NilTup).val[2] < 0

C16_BadLimitFailsBeforeOpen ==
  (op = "LimitOp" /\ it[1].status # "none" /\ BadLimit)
    => /\ it[1].status = "failed"
       /\ it[1].err # NilErr
       /\ it[1].opens = 0
       /\ it[1].cpulls = 0
       /\ out[1] = <<>>

\* the Iterator call of a LimitOp with the limit -1 has returned
C16_Witness ==
  /\ op = "LimitOp"
  /\ cfg.limitTups.val = IntField(-1)
  /\ it[1].status = "failed"
  /\ it[1].err = <<"limit value cannot be negative">>

----------------------------------------------------------------------------
(* C17: the tuples a Filter has emitted are always the first ones of the   *)
(* child tuples, unchanged and in child order, whose field value and       *)
(* constant satisfy the relational operator; once it has signalled         *)
(* exhaustion they are all of them.                                        *)

\* the relational operator on two integer values
Holds(a, bop, b) ==
  CASE bop = "OpEq" -> a = b
    [] bop = "OpGt" -> a > b
    [] bop = "OpLt" -> a < b
Satisfies(t) ==
  /\ t.f[cfg.left.idx] # BadVal
  /\ cfg.right.val # BadVal
  /\ Holds(t.f[cfg.left.idx][2], cfg.op, cfg.right.val[2])
FilterExpected == SelectSeq(TuplesOf(left), Satisfies)

C17_FilterSelects ==
  op = "Filter" =>
    LET os == OutTuples(out[1])
    IN /\ Len(os) <= Len(FilterExpected)
       /\ os = SubSeq(FilterExpected, 1, Len(os))
       /\ Exhausted(1) => os = FilterExpected

\* v > 1 over three tuples of which the second one fails the predicate
C17_Witness ==
  /\ op = "Filter"
  /\ cfg.op = "OpGt"
  /\ cfg.right.val = IntField(1)
  /\ Len(TuplesOf(left)) = 3
  /\ ~Satisfies(TuplesOf(left)[2])
  /\ Exhausted(1)
  /\ OutTuples(out[1]) = <<TuplesOf(left)[1], TuplesOf(left)[3]>>

----------------------------------------------------------------------------
(* C18: a Project pulled to exhaustion has emitted, without distinct, the  *)
(* projection of every child tuple in child order (as many tuples as the   *)
(* child has, when every target evaluates on every tuple); with distinct,  *)
(* the first occurrence of every projected value combination, in child     *)
(* order, and no combination twice.                                        *)

Projectable(t) ==
  \A n \in 1..Len(cfg.selectFields) : t.f[cfg.selectFields[n].idx] # BadVal
ProjectionOf(t) ==
  Tup([n \in 1..Len(cfg.selectFields) |-> t.f[cfg.selectFields[n].idx]],
      [n \in 1..Len(cfg.selectFields) |->
         FieldType(cfg.outputNames[n], cfg.selectFields[n].ftype)])
Projections ==
  LET ts == SelectSeq(TuplesOf(left), Projectable)
  IN [n \in 1..Len(ts) |-> ProjectionOf(ts[n])]

\* the first occurrence of every value combination, in order
RECURSIVE FirstOccurrences(_)
FirstOccurrences(ps) ==
  IF ps = <<>> THEN <<>>
  ELSE LET front == SubSeq(ps, 1, Len(ps) - 1)
       IN IF \E m \in 1..Len(front) : front[m].f = ps[Len(ps)].f
            THEN FirstOccurrences(front)
          ELSE Append(FirstOccurrences(front), ps[Len(ps)])

C18_ProjectEmits ==
  (op = "Project" /\ Exhausted(1)) =>
    LET os == OutTuples(out[1])
    IN /\ ~cfg.distinct => os = Projections
       /\ (~cfg.distinct /\ Len(Projections) = Len(TuplesOf(left)))
            => Len(os) = Len(TuplesOf(left))
       /\ cfg.distinct =>
            /\ os = FirstOccurrences(Projections)
            /\ \A a, b \in 1..Len(os) : a # b => os[a].f # os[b].f
            /\ \A n \in 1..Len(Projections) : \E a \in 1..Len(os) : os[a].f = Projections[n].f

\* a distinct projection on v of three tuples, two of which have the same v
C18_Witness ==
  /\ op = "Project"
  /\ cfg.distinct
  /\ Len(cfg.selectFields) = 1
  /\ Len(Projections) = 3
  /\ Exhausted(1)
  /\ Len(OutTuples(out[1])) = 2

----------------------------------------------------------------------------
(* C19: no call of a child's pull function happens inside an Iterator call *)
(* of an operator: as long as the operator's own pull function has not     *)
(* been called, no child has been pulled.                                  *)
C19_IteratorPullsNoTuple ==
  \A i \in Iters :
    out[i] = <<>> => (it[i].cpulls = 0 /\ it[i].pos = 1 /\ it[i].rpos = 1)

\* the same for the operators other than OrderBy
C19_ExceptOrderBy == op \notin {"OrderBy", "OrderByEOF"} => C19_IteratorPullsNoTuple

----------------------------------------------------------------------------
(* C20: when the pull function of an OrderBy, an Aggregator, an InsertOp   *)
(* or a DeleteOp has returned a tuple, the child has yielded all its items *)
(* and has signalled exhaustion before.                                    *)
C20_BlockingOperators ==
  (op \in {"OrderBy", "OrderByEOF", "Aggregator", "InsertOp", "DeleteOp"}
     /\ \E k \in 1..Len(out[1]) : ~out[1][k].t.nil)
    => /\ it[1].pos = Len(left.items) + 1
       /\ it[1].cpulls > Len(left.items)

\* a grouped Aggregator that has returned its first tuple over a child of
\* three tuples
C20_Witness ==
  /\ op = "Aggregator"
  /\ cfg.groupByFields = <<K>>
  /\ Len(TuplesOf(left)) = 3
  /\ Len(out[1]) = 1
  /\ ~out[1][1].t.nil
  /\ it[1].pos = 4

----------------------------------------------------------------------------
(* C21: NewJoin returns an error, and no join, when the left or the right  *)
(* key expression is not integer-typed: every EqualityJoin that exists has *)
(* integer-typed key expressions.                                          *)
C21_NewJoinRejectsNonInteger ==
  op = "EqualityJoin" =>
    /\ GetExprType(cfg.leftField).Ftype = IntType
    /\ GetExprType(cfg.rightField).Ftype = IntType

\* a join on string keys was constructed and has emitted a joined tuple
C21_StringJoinEmits ==
  /\ op = "EqualityJoin"
  /\ GetExprType(cfg.leftField).Ftype = StringType
  /\ OutTuples(out[1]) # <<>>

----------------------------------------------------------------------------
(* computeFieldSum.  A file is missing, cannot be opened, or holds lines   *)
(* of comma-separated cells; a cell is a text.  In this specification left *)
(* is the named file before the call and right is the file after it.       *)

MaxLines == 3      \* most lines of a CSV file, the header included

\* strconv of a cell: whether the text is a number, and the number
ParseInt(cell) ==
  CASE cell = "1" -> [ok |-> TRUE, val |-> 1]
    [] cell = "2" -> [ok |-> TRUE, val |-> 2]
    [] cell = "-2" -> [ok |-> TRUE, val |-> -2]
    [] OTHER -> [ok |-> FALSE, val |-> 0]

\* os.OpenFile(fileName, os.O_RDWR|os.O_CREATE, 0644): a missing file is
\* created empty when its directory allows it
OpenFile(file) ==
  CASE file.state = "present" -> [err |-> NilErr, file |-> file]
    [] file.state = "missing" -> [err |-> NilErr, file |-> [state |-> "present", lines |-> <<>>]]
    [] OTHER -> [err |-> <<"open error">>, file |-> file]

\* HeapFile.LoadFromCSV(file, true, ",", false): every line must have one
\* cell per field of the descriptor; the first line is the header; a cell
\* of an integer field must be a number
RECURSIVE LoadFromCSV(_, _, _, _)
LoadFromCSV(lines, td, cnt, tuples) ==
  LET newFields(line) ==
        [i \in 1..Len(td) |->
           IF td[i][2] = IntType THEN IntField(ParseInt(line[i]).val)
           ELSE <<StringType, line[i]>>]
  IN
  IF cnt > Len(lines) THEN [err |-> NilErr, tuples |-> tuples]
  ELSE IF Len(lines[cnt]) # Len(td)
    THEN [err |-> <<"malformed data">>, tuples |-> tuples]
  ELSE IF cnt = 1 THEN LoadFromCSV(lines, td, cnt + 1, tuples)
  ELSE IF \E i \in 1..Len(td) : td[i][2] = IntType /\ ~ParseInt(lines[cnt][i]).ok
    THEN [err |-> <<"type mismatch">>, tuples |-> tuples]
  ELSE LoadFromCSV(lines, td, cnt + 1,
                   Append(tuples, Tup(newFields(lines[cnt]), td)))

\* the loop that looks sumField up in td.Fields: the index, or 0 for -1
FieldIndex(td, sumField) ==
  IF \E i \in 1..Len(td) : td[i][1] = sumField
    THEN CHOOSE i \in 1..Len(td) :
           td[i][1] = sumField /\ \A j \in 1..(i - 1) : td[j][1] # sumField
    ELSE 0

\* the loop over the tuples of the heap file
RECURSIVE SumLoop(_, _, _, _)
SumLoop(tuples, fieldIndex, n, sum) ==
  IF n > Len(tuples) THEN [sum |-> sum, err |-> NilErr]
  ELSE IF tuples[n].f[fieldIndex][1] = IntType
    THEN SumLoop(tuples, fieldIndex, n + 1, sum + tuples[n].f[fieldIndex][2])
  ELSE [sum |-> 0, err |-> <<"unsupported field type for field">>]

computeFieldSum(file, td, sumField) ==
  LET o == OpenFile(file)
      l == LoadFromCSV(o.file.lines, td, 1, <<>>)
      fieldIndex == FieldIndex(td, sumField)
      r == SumLoop(l.tuples, fieldIndex, 1, 0)
  IN IF o.err # NilErr
       THEN [sum |-> 0, err |-> Errorf("failed to open or create file", o.err), file |-> o.file]
     ELSE IF l.err # NilErr
       THEN [sum |-> 0, err |-> Errorf("failed to load CSV file", l.err), file |-> o.file]
     ELSE IF fieldIndex = 0
       THEN [sum |-> 0, err |-> <<"field does not exist in the tuple descriptor">>,
             file |-> o.file]
     ELSE [sum |-> r.sum, err |-> r.err, file |-> o.file]

\* the inputs: a missing file in a directory that allows creating it, a
\* file that cannot be opened, and files of at most MaxLines lines
InitSum ==
  /\ InitIters
  /\ op = "computeFieldSum"
  /\ cfg \in [td : {<<FieldType("a", IntType)>>, <<FieldType("a", StringType)>>,
                     <<FieldType("a", IntType), FieldType("b", StringType)>>,
                     <<FieldType("a", IntType), FieldType("b", IntType)>>},
               sumField : {"a", "b", "c"}]
  /\ left \in {[state |-> "missing", lines |-> <<>>],
                [state |-> "unopenable", lines |-> <<>>]}
       \cup {[state |-> "present", lines |-> q] :
               q \in BoundedSeq({<<"1">>, <<"-2">>, <<"x">>, <<"1", "2">>,
                                 <<"-2", "x">>, <<"x", "1">>}, MaxLines)}
  /\ right = left
  /\ storeFail = {}
  /\ nanInt = 0
  /\ heap = <<>>

\* one call computeFieldSum(bp, fileName, td, sumField)
ComputeFieldSum ==
  /\ op = "computeFieldSum"
  /\ out[1] = <<>>
  /\ LET r == computeFieldSum(right, cfg.td, cfg.sumField)
     IN /\ out' = [out EXCEPT ![1] = <<[sum |-> r.sum, err |-> r.err]>>]
        /\ right' = r.file
  /\ UNCHANGED <<op, cfg, left, storeFail, nanInt, heap, it, calls>>

NextSum == ComputeFieldSum

SpecSum == InitSum /\ [][NextSum]_vars

----------------------------------------------------------------------------
(* C22: computeFieldSum returns an error and no sum when the named file    *)
(* does not exist or cannot be opened, when sumField is not a field of the *)
(* descriptor, and when sumField is not an integer field; otherwise, the   *)
(* file being a CSV file that matches the descriptor, it returns the sum   *)
(* of the field over the rows after the header.                            *)

SumFieldTypes == {cfg.td[i][2] : i \in {j \in 1..Len(cfg.td) : cfg.td[j][1] = cfg.sumField}}
\* every line has one cell per field, and numbers in the integer fields
MatchesDesc(lines, td) ==
  \A n \in 1..Len(lines) :
    /\ Len(lines[n]) = Len(td)
    /\ n > 1 => \A i \in 1..Len(td) : td[i][2] = IntType => ParseInt(lines[n][i]).ok
RECURSIVE ColumnSum(_, _, _)
ColumnSum(lines, i, n) ==
  IF n > Len(lines) THEN 0 ELSE ParseInt(lines[n][i]).val + ColumnSum(lines, i, n + 1)

C22_FileMissing == left.state # "present" => out[1][1].err # NilErr
C22_NoSuchField == SumFieldTypes = {} => out[1][1].err # NilErr
C22_NotInteger == SumFieldTypes = {StringType} => out[1][1].err # NilErr
C22_Sum ==
  (left.state = "present" /\ SumFieldTypes = {IntType} /\ MatchesDesc(left.lines, cfg.td))
    => out[1][1] = [sum |-> ColumnSum(left.lines, FieldIndex(cfg.td, cfg.sumField), 2),
                    err |-> NilErr]

C22_ComputeFieldSum ==
  (op = "computeFieldSum" /\ out[1] # <<>>)
    => (C22_FileMissing /\ C22_NoSuchField /\ C22_NotInteger /\ C22_Sum)

\* the parts of C22 that hold of the code
C22_Holds ==
  (op = "computeFieldSum" /\ out[1] # <<>>)
    => /\ left.state = "unopenable" => out[1][1].err # NilErr
       /\ C22_NoSuchField
       /\ (SumFieldTypes = {StringType} /\ Len(right.lines) > 1) => out[1][1].err # NilErr
       /\ C22_Sum
\* the missing file has been created and the sum 0 returned without an error
C22_MissingFileCreated ==
  /\ op = "computeFieldSum" /\ out[1] # <<>>
  /\ left.state = "missing" /\ right.state = "present"
  /\ out[1][1] = [sum |-> 0, err |-> NilErr]
\* a string field of a file with a header and no rows has the sum 0
C22_StringFieldSummed ==
  /\ op = "computeFieldSum" /\ out[1] # <<>>
  /\ left.state = "present" /\ SumFieldTypes = {StringType}
  /\ out[1][1] = [sum |-> 0, err |-> NilErr]

----------------------------------------------------------------------------
(* C23: over a finite child that yields tuples and then signals exhaustion *)
(* with (nil, nil), OrderBy.Iterator returns after one pull per tuple and  *)
(* one more, with a buffer that holds exactly the child's tuples and no    *)
(* nil entry.                                                              *)

\* the sequences hold the same elements the same number of times
SameElements(q1, q2) ==
  /\ Len(q1) = Len(q2)
  /\ \E f \in Perms(Len(q1)) : \A n \in 1..Len(q1) : q1[n] = q2[f[n]]

C23_Drained(i) ==
  /\ it[i].status # "diverged"
  /\ it[i].cpulls = Len(left.items) + 1
  /\ \A n \in 1..Len(it[i].tuples) : ~it[i].tuples[n].nil
  /\ SameElements(it[i].tuples, TuplesOf(left))

C23_OrderByDrainTerminates ==
  (op \in {"OrderBy", "OrderByEOF"} /\ PlainChild /\ left.openErr = NilErr
     /\ it[1].status # "none")
    => C23_Drained(1)

\* the claim holds of the OrderBy that ends its loop at a nil tuple
C23_NilConventionOrderBy == op = "OrderBy" => C23_OrderByDrainTerminates
\* the loop of order_by_op.go went past the (nil, nil) of a child of two tuples
C23_LoopPastExhaustion ==
  /\ op = "OrderByEOF" /\ PlainChild /\ Len(left.items) = 2
  /\ it[1].status = "diverged"
  /\ Last(it[1].tuples).nil

----------------------------------------------------------------------------
(* C24: when OrderBy has buffered two or more tuples and its first sort    *)
(* key fails to evaluate on one of them, the failure is an error returned  *)
(* by Iterator or by the first pull; there is no panic and no tuple is     *)
(* emitted.                                                                *)

\* Iterator has fetched the whole child, and the sort has to evaluate the
\* first key on a buffered tuple on which it fails
C24_KeyFails ==
  /\ op \in {"OrderBy", "OrderByEOF"}
  /\ it[1].status \notin {"none", "diverged"}
  /\ it[1].cerr = (IF op = "OrderBy" THEN NilErr ELSE EOF)
  /\ cfg.orderBy # <<>>
  /\ Len(it[1].tuples) >= 2
  /\ \E n \in 1..Len(it[1].tuples) : EvalExpr(cfg.orderBy[1], it[1].tuples[n]).err # NilErr

C24_SortKeyFailureIsAnError ==
  C24_KeyFails =>
    /\ it[1].status # "panic"
    /\ OutTuples(out[1]) = <<>>
    /\ \/ it[1].status = "failed" /\ it[1].err # NilErr
       \/ out[1] = <<>>
       \/ out[1][1].err \notin {NilErr, EOF}

\* in the code every such failure is a panic inside sort.SliceStable
C24_KeyFailurePanics == C24_KeyFails => it[1].status = "panic"
C24_Panicked == C24_KeyFails /\ op = "OrderBy" /\ it[1].status = "panic"

----------------------------------------------------------------------------
(* C25: every tuple a grouped Aggregator emits carries the descriptor that *)
(* Aggregator.Descriptor reports: as many fields, with the same names (the *)
(* group-by fields named by position) and types, in the same order.        *)
C25_EmittedDescriptor ==
  (op = "Aggregator" /\ ~cfg.groupByNil) =>
    \A k \in 1..Len(out[1]) :
      ~out[1][k].t.nil => out[1][k].t.d = Aggregator_Descriptor(cfg, heap)

\* what holds of the code: the fields agree in number and, one by one, in
\* type, and the accumulator fields agree in name as well
C25_SameTypes ==
  (op = "Aggregator" /\ ~cfg.groupByNil) =>
    \A k \in 1..Len(out[1]) :
      ~out[1][k].t.nil =>
        LET d == out[1][k].t.d
            e == Aggregator_Descriptor(cfg, heap)
        IN /\ Len(d) = Len(e)
           /\ \A i \in 1..Len(d) :
                /\ d[i][2] = e[i][2]
                /\ i > Len(cfg.groupByFields) => d[i] = e[i]
\* a tuple of a group whose key field is named after the expression
C25_NamedAfterExpression ==
  /\ op = "Aggregator" /\ cfg.groupByFields = <<K>>
  /\ OutTuples(out[1]) # <<>>
  /\ OutTuples(out[1])[1].d[1] = FieldType("k", IntType)
  /\ Aggregator_Descriptor(cfg, heap)[1] = FieldType("groupby_0", IntType)
\* with no group-by the emitted descriptor is the reported one
C25_UngroupedDescriptor ==
  (op = "Aggregator" /\ cfg.groupByNil) =>
    \A k \in 1..Len(out[1]) :
      ~out[1][k].t.nil => out[1][k].t.d = Aggregator_Descriptor(cfg, heap)

----------------------------------------------------------------------------
(* Two iterators of one Project, their calls interleaved. *)

InitTwoProject ==
  /\ InitIters
  /\ op = "Project"
  /\ cfg \in ProjectCfgs
  /\ left \in TwoStreams
  /\ right = NoChild
  /\ storeFail = {}
  /\ nanInt = 0
  /\ heap = <<>>

NextTwoProject == \E i \in Iters : ProjectOpen(i) \/ ProjectPull(i)

SpecTwoProject == InitTwoProject /\ [][NextTwoProject]_vars

----------------------------------------------------------------------------
(* C26: the set of seen tuples of a distinct Project belongs to one        *)
(* iterator: every iterator starts with an empty set of its own, and,      *)
(* whatever the other iterators have pulled, has emitted the first         *)
(* occurrences among the child tuples it has consumed, all of them once it *)
(* is exhausted.                                                           *)

\* the projections of the child tuples iterator i has consumed
ConsumedProjections(i) ==
  LET ts == OutTuples(SubSeq(left.items, 1, it[i].pos - 1))
  IN [n \in 1..Len(ts) |-> ProjectionOf(ts[n])]

C26_SeenSetPerIterator ==
  (op = "Project" /\ cfg.distinct) =>
    \A i \in Iters :
      it[i].status = "open" =>
        /\ \A k \in Iters : (k # i /\ it[k].status = "open")
                              => it[k].seenTuples # it[i].seenTuples
        /\ heap[it[i].seenTuples] = {tupleKey(t) : t \in {OutTuples(out[i])[n] :
                                                           n \in 1..Len(OutTuples(out[i]))}}
        /\ OutTuples(out[i]) = FirstOccurrences(ConsumedProjections(i))
        /\ Exhausted(i) => OutTuples(out[i]) = FirstOccurrences(Projections)

\* over two child tuples with the same projection, both iterators are
\* exhausted and each has emitted that projection once
C26_Witness ==
  /\ op = "Project" /\ cfg.distinct
  /\ Len(cfg.selectFields) = 1
  /\ Len(Projections) = 2
  /\ Len(FirstOccurrences(Projections)) = 1
  /\ Exhausted(1) /\ Exhausted(2)
  /\ Len(OutTuples(out[1])) = 1
  /\ OutTuples(out[2]) = OutTuples(out[1])

----------------------------------------------------------------------------
(* C27: an EqualityJoin iterator pulled to exhaustion over a left child of *)
(* L tuples has opened the left child once and the right child L times,    *)
(* once per left tuple; while a left tuple is being matched, the right     *)
(* child has been opened for it.                                           *)

\* the left tuples the iterator has taken so far
LeftTaken(i) == Len(OutTuples(SubSeq(left.items, 1, it[i].pos - 1)))

C27_OneMoreOpening ==
  (op = "EqualityJoin" /\ PlainChild /\ it[1].status = "open") =>
    /\ it[1].opens = 1
    /\ it[1].ropens = 1 + LeftTaken(1)
    /\ Exhausted(1) => it[1].ropens = 1 + Len(TuplesOf(left))
\* a join over two left tuples, exhausted, has opened the right child 3 times
C27_ThreeOpenings ==
  /\ op = "EqualityJoin" /\ PlainChild
  /\ Len(TuplesOf(left)) = 2
  /\ Exhausted(1)
  /\ it[1].ropens = 3

----------------------------------------------------------------------------
(* C28: over the life of a LimitOp iterator with limit n, at most n calls  *)
(* of the child's pull function return without an error (a call that       *)
(* returns the exhaustion signal (nil, nil) counts); once n calls have     *)
(* done so the child is not pulled again; with n = 0 it is never pulled.   *)

\* the calls of the child's pull function, among those made so far by
\* iterator i, that returned without an error
OkPulls(i) ==
  Cardinality({k \in 1..it[i].cpulls : ChildNext(left, k).res.err = NilErr})

C28_Step ==
  (op = "LimitOp" /\ it'[1].status = "open") =>
    /\ OkPulls(1)' <= LimitN
    /\ LimitN = 0 => it'[1].cpulls = 0
    /\ OkPulls(1) = LimitN => it'[1].cpulls = it[1].cpulls

C28_ChildPulledAtMostN == [][C28_Step]_vars

\* limit 2 over a child of one tuple: the tuple and one exhaustion signal
\* were pulled, and a further pull of the LimitOp left the child alone
C28_Witness ==
  /\ op = "LimitOp" /\ LimitN = 2 /\ it[1].status = "open"
  /\ left.conv = "nil" /\ Len(left.items) = 1 /\ Len(TuplesOf(left)) = 1
  /\ Len(out[1]) = 3
  /\ it[1].cpulls = 2

----------------------------------------------------------------------------
(* C29: an InsertOp or DeleteOp iterator that is pulled again after a pull *)
(* ended with a storage error goes on with the next child tuple: the j-th  *)
(* storage call is always on the j-th child tuple, none retried and none   *)
(* skipped; the count is the number of storage calls that succeeded since  *)
(* the iterator was created; at most one count tuple is emitted, and its   *)
(* value is that number.                                                   *)

Succeeded == Cardinality({j \in 1..Len(calls) : calls[j].err = NilErr})

C29_ResumesAfterStorageError ==
  (op \in StoreOps /\ it[1].status = "open") =>
    /\ Len(calls) <= Len(TuplesOf(left))
    /\ \A j \in 1..Len(calls) :
         calls[j].call = StoreCall /\ calls[j].t = TuplesOf(left)[j]
    /\ it[1].count = Succeeded
    /\ Len(OutTuples(out[1])) <= 1
    /\ \A k \in 1..Len(out[1]) :
         ~out[1][k].t.nil => out[1][k].t.f = <<IntField(Succeeded)>>

\* the second of three storage calls failed and ended the first pull; the
\* second pull stored the third tuple and returned the count 2
C29_Witness ==
  /\ op \in StoreOps /\ storeFail = {2}
  /\ Len(calls) = 3
  /\ Len(out[1]) >= 2
  /\ out[1][1].err = Errorf(IF op = "InsertOp" THEN "failed to insert tuple"
                            ELSE "failed to delete tuple", StoreErr)
  /\ out[1][2].t.f = <<IntField(2)>>

====
